---- MODULE Spec2Model ----
(***************************************************************************)
(* A model of gitlab-bot: the GitLab API client (src/client/mod.rs), the   *)
(* cache, the per-merge-request policy and report engine, the comment      *)
(* reconciler and the scheduler loop (src/bot.rs).                         *)
(*                                                                         *)
(* Specifications:                                                         *)
(*   SpecPage    one call of Gitlab::load_paginated (or of a               *)
(*               single-request operation) against a server                *)
(*   SpecCache   the Cache accessors for repo configs under the monotonic  *)
(*               clock                                                     *)
(*   Spec        Bot::do_loop over one open merge request, every await of  *)
(*               process_merge_request a step of its own, against a server *)
(*               that answers every request and on which people, pipelines *)
(*               and the calendar move between the cycles                  *)
(*   SpecIsolation  one cycle of Bot::process over three merge requests    *)
(*               whose futures interleave, against a server that may       *)
(*               answer a request with an error status                     *)
(*   SpecIsolationFair  the same under the reactor: what can be answered   *)
(*               or polled is answered or polled                           *)
(*   SpecWindow  one cycle of Bot::process over more merge requests than   *)
(*               buffered(5) holds, each process_merge_request future      *)
(*               reduced to its first poll and its resolution              *)
(*   SpecLoop    Bot::do_loop over one merge request against a server that *)
(*               may fail, with the fairness of the reactor: a timer that  *)
(*               was set fires and do_loop goes round                      *)
(*   SpecCycles  Bot::do_loop over one merge request against a server that *)
(*               may fail and on which, between the cycles, a person       *)
(*               comments and updated_at moves                             *)
(*   SpecPolicy  one pass of process_merge_request over one merge request  *)
(*               whose title, notes, pipeline, policy file and age are any *)
(*               of the cases the policy tells apart, against a server     *)
(*               that may answer a request with an error status            *)
(*                                                                         *)
(* The Mutex of the Cache is a variable of its own: an accessor locks it   *)
(* and drops its guard before it returns.                                  *)
(* Time: `now` is the monotonic clock (std::time::Instant) in minutes,     *)
(* `today` the wall clock (chrono::Utc) in days.                           *)
(* A comment body is a sequence of tokens <<text, name, number>>; a marker *)
(* tag is a token of its own, and body.contains(marker) is membership.     *)
(***************************************************************************)
EXTENDS Integers, Sequences, FiniteSets, TLC

VARIABLES
    \* ---- one call of Gitlab::load_paginated (client/mod.rs:151-189) ----
    op,             \* the operation called: "none", "load_paginated", "get_json"
    max_pages,      \* the caller's cap: None or Some(x)
    header,         \* the x-total-pages header of the first response
    lp_pc,          \* position of the call: "start", "first", "page", "single", "done"
    page,           \* the page number of the request in flight
    last_page,      \* the loop's upper bound (0 until computed)
    items,          \* the items accumulated so far
    sent,           \* the page numbers requested, in the order sent
    statuses,       \* the HTTP statuses of the responses received, in order
    lp_result,      \* "none" while running, then "ok" or "err"
    \* ---- clocks ----
    now,            \* Instant::now(), in minutes
    today,          \* Utc::now(), in days
    \* ---- CacheInner (bot.rs:89-93) ----
    project_configs,    \* Cacher<u64, RepoConfig>.items: project id -> Option<CacheItem>
    merge_requests,     \* HashMap<u64, FullMergeRequest>: merge request id -> Option
    \* ---- the GitLab server ----
    gl_open,        \* the ids of the open merge requests
    gl_mrs,         \* the merge requests, by id, as the listing returns them
    gl_branches,    \* per merge request: its source branch with the head commit
    gl_notes,       \* per merge request: its notes, newest first
    gl_note_count,  \* per merge request: the notes created so far (the last note id)
    gl_pipelines,   \* per merge request: its pipelines, most recent first
    gl_repo_file,   \* per project: the content of .gitlab-bot.toml on master
    \* ---- Bot::do_loop and Bot::process (bot.rs:609-688) ----
    loop_pc,        \* "loop", "user", "merge_requests", "buffered", "timeout"
    cycle,          \* the number of cycles started
    user,           \* the bot's identity as loaded by this cycle
    stream,         \* stream::iter_ok(mrs): the selected merge requests not yet started
    window,         \* the futures held by buffered(5), in submission order
    process_result, \* the result of the last process(): "none", "ok", "err"
    task,           \* per merge request: the state of its process_merge_request future
    \* ---- observations of a cycle ----
    writes,         \* per merge request: the comment writes its run has issued
    fetches,        \* per merge request: the fetch requests its run has issued
    unchanged_at_list,  \* the merge requests the listing found unchanged in the cache
    passes,         \* per merge request: what its last two completed runs saw and did
    failures,       \* the requests the server has answered with an error status
    \* ---- observations of the cache accessors ----
    last_set,       \* per project: the last set_project_config, as [conf, at]
    got,            \* the last get_project_config, as [project, result, at]
    mutex           \* the Mutex around CacheInner: "free", "held" or "blocked"

page_vars == <<op, max_pages, header, lp_pc, page, last_page, items, sent, statuses,
               lp_result>>

cache_obs_vars == <<last_set, got>>

gl_vars == <<gl_open, gl_mrs, gl_branches, gl_notes, gl_note_count, gl_pipelines,
             gl_repo_file>>

sched_vars == <<loop_pc, cycle, user, stream, window, process_result>>

obs_vars == <<writes, fetches, unchanged_at_list, passes, failures>>

bot_vars == <<today, merge_requests, task, sched_vars, obs_vars>>

vars == <<page_vars, now, project_configs, cache_obs_vars, mutex, gl_vars, bot_vars>>

-----------------------------------------------------------------------------
(* Option<T> *)
None == [some |-> FALSE]
Some(x) == [some |-> TRUE, val |-> x]

Min(a, b) == IF a <= b THEN a ELSE b

-----------------------------------------------------------------------------
(* Bounds *)
MaxCap == 4         \* load_paginated: caps drawn from 0..MaxCap
MaxTotal == 4       \* load_paginated: declared page counts drawn from 0..MaxTotal
MaxNow == 33        \* SpecCache: the monotonic clock runs from 0 to MaxNow minutes

-----------------------------------------------------------------------------
(* Data *)

ProjectIds == {1, 2}

(* RepoConfig (bot.rs:166-172) and RepoMergeRequestConfig (bot.rs:146-152). *)
(* A pattern is a regex source text.                                        *)
RepoConfigDefault == [disabled |-> None, merge_requests |-> None]

RepoConfigDisabled == [disabled |-> Some(TRUE), merge_requests |-> None]

RepoConfigRules ==
    [disabled |-> None,
     merge_requests |-> Some([title_pattern |-> Some("^\\[[A-Z]+-\\d+\\]"),
                              title_error |-> None,
                              branch_name_pattern |-> Some("^feature/"),
                              branch_name_error |-> None])]

-----------------------------------------------------------------------------
(* The API client: Gitlab::send and Gitlab::load_paginated *)

(* The HTTP statuses the server answers with. *)
HttpStatuses == {200, 404, 500}

(* A send() that lets client errors through as if they were successes.     *)
SendIsErrServerOnly(status) == status >= 500

(* Gitlab::send: execute(req).and_then(|res| res.error_for_status()) - a   *)
(* client or server error status turns the response into Err.              *)
SendIsErr(status) == status >= 400

(* The server's page p of the list: two items per existing page, none      *)
(* beyond the declared total.                                              *)
PageItems(p, total) == IF p >= 1 /\ p <= total THEN <<2 * p - 1, 2 * p>> ELSE <<>>

(* The x-total-pages header values: absent, not a number, or a number.     *)
Headers == {[kind |-> "missing"], [kind |-> "garbage"]}
             \cup {[kind |-> "num", n |-> n] : n \in 0..MaxTotal}

HeaderTotal(h) == IF h.kind = "num" THEN h.n ELSE 0

(* A shortcut that looks at the declared total only, not at the cap.       *)
OnlyOnePageTotalOnly(total_pages, mp) == total_pages < 2

(* client/mod.rs:172  total_pages < 2 || max_pages.map(|x| x > 2).unwrap_or(false) *)
OnlyOnePage(total_pages, mp) ==
    total_pages < 2 \/ (IF mp.some THEN mp.val > 2 ELSE FALSE)

(* A page loop that stops one page early when there is no cap.             *)
LastPageOffByOne(total_pages, mp) == IF mp.some THEN mp.val ELSE total_pages - 1

(* client/mod.rs:177-181 *)
LastPage(total_pages, mp) == IF mp.some THEN mp.val ELSE total_pages

not_page_vars == <<now, project_configs, cache_obs_vars, mutex, gl_vars, bot_vars>>

(* load_paginated up to its first await: the request for the list's url    *)
(* (no page parameter, i.e. page 1) is sent.                               *)
LoadPaginated ==
    /\ lp_pc = "start"
    /\ lp_pc' = "first"
    /\ op' = "load_paginated"
    /\ page' = 1
    /\ sent' = <<1>>
    /\ UNCHANGED <<max_pages, header, last_page, items, statuses, lp_result>>
    /\ UNCHANGED not_page_vars

(* A first response whose missing or unreadable x-total-pages header is    *)
(* read as one page.                                                       *)
FirstResponseAnyHeader(status) ==
    /\ lp_pc = "first"
    /\ statuses' = Append(statuses, status)
    /\ IF SendIsErr(status)
       THEN /\ lp_pc' = "done"
            /\ lp_result' = "err"
            /\ items' = <<>>
            /\ UNCHANGED <<page, last_page, sent>>
       ELSE LET total_pages == IF header.kind = "num" THEN header.n ELSE 1
                first == PageItems(1, total_pages)
                last == LastPage(total_pages, max_pages)
            IN  IF OnlyOnePage(total_pages, max_pages) \/ last < 2
                THEN /\ lp_pc' = "done"
                     /\ lp_result' = "ok"
                     /\ items' = first
                     /\ UNCHANGED <<page, last_page, sent>>
                ELSE /\ lp_pc' = "page"
                     /\ items' = first
                     /\ last_page' = last
                     /\ page' = 2
                     /\ sent' = Append(sent, 2)
                     /\ UNCHANGED lp_result
    /\ UNCHANGED <<op, max_pages, header>>
    /\ UNCHANGED not_page_vars

(* The first response arrives: send()? , the header, the body, the         *)
(* one-page shortcut, and the first iteration of the page loop.            *)
FirstResponse(status) ==
    /\ lp_pc = "first"
    /\ statuses' = Append(statuses, status)
    /\ IF SendIsErr(status) \/ header.kind # "num"
       THEN /\ lp_pc' = "done"
            /\ lp_result' = "err"
            /\ items' = <<>>
            /\ UNCHANGED <<page, last_page, sent>>
       ELSE LET total_pages == header.n
                first == PageItems(1, total_pages)
                last == LastPage(total_pages, max_pages)
            IN  IF OnlyOnePage(total_pages, max_pages)
                THEN /\ lp_pc' = "done"
                     /\ lp_result' = "ok"
                     /\ items' = first
                     /\ UNCHANGED <<page, last_page, sent>>
                ELSE IF last < 2
                THEN /\ lp_pc' = "done"
                     /\ lp_result' = "ok"
                     /\ items' = first
                     /\ last_page' = last
                     /\ UNCHANGED <<page, sent>>
                ELSE /\ lp_pc' = "page"
                     /\ items' = first
                     /\ last_page' = last
                     /\ page' = 2
                     /\ sent' = Append(sent, 2)
                     /\ UNCHANGED lp_result
    /\ UNCHANGED <<op, max_pages, header>>
    /\ UNCHANGED not_page_vars

(* The response of load_page(url, page) arrives inside the loop.           *)
PageResponse(status) ==
    /\ lp_pc = "page"
    /\ statuses' = Append(statuses, status)
    /\ IF SendIsErr(status)
       THEN /\ lp_pc' = "done"
            /\ lp_result' = "err"
            /\ items' = <<>>
            /\ UNCHANGED <<page, sent>>
       ELSE /\ items' = items \o PageItems(page, HeaderTotal(header))
            /\ IF page + 1 <= last_page
               THEN /\ page' = page + 1
                    /\ sent' = Append(sent, page + 1)
                    /\ UNCHANGED <<lp_pc, lp_result>>
               ELSE /\ lp_pc' = "done"
                    /\ lp_result' = "ok"
                    /\ UNCHANGED <<page, sent>>
    /\ UNCHANGED <<op, max_pages, header, last_page>>
    /\ UNCHANGED not_page_vars

(* A single-request operation (get_json, repo_file, job_trace, comment     *)
(* create / update / delete) up to its await: the request is sent.         *)
GetJson ==
    /\ lp_pc = "start"
    /\ lp_pc' = "single"
    /\ op' = "get_json"
    /\ page' = 1
    /\ sent' = <<1>>
    /\ UNCHANGED <<max_pages, header, last_page, items, statuses, lp_result>>
    /\ UNCHANGED not_page_vars

(* Its response arrives: send()? and the body.                             *)
JsonResponse(status) ==
    /\ lp_pc = "single"
    /\ statuses' = Append(statuses, status)
    /\ lp_pc' = "done"
    /\ lp_result' = IF SendIsErr(status) THEN "err" ELSE "ok"
    /\ items' = IF SendIsErr(status) THEN <<>> ELSE <<1>>
    /\ UNCHANGED <<op, max_pages, header, page, last_page, sent>>
    /\ UNCHANGED not_page_vars

(* No client call is being observed.                                       *)
IdlePage ==
    /\ op = "none"
    /\ max_pages = None
    /\ header = [kind |-> "missing"]
    /\ lp_pc = "idle"
    /\ page = 0
    /\ last_page = 0
    /\ items = <<>>
    /\ sent = <<>>
    /\ statuses = <<>>
    /\ lp_result = "none"

-----------------------------------------------------------------------------
(* The cache *)

(* bot.rs:134  Duration::from_secs(60 * 30), in minutes *)
ConfigTtl == 30

(* Cache wraps its maps in one Mutex (bot.rs:93-96). Mutex::lock: a free   *)
(* mutex is taken; a taken one blocks the thread, and with it the reactor  *)
(* and every future on it.                                                 *)
MutexLock(l) == IF l = "free" THEN "held" ELSE "blocked"

(* A guard that outlives the accessor that took it.                        *)
GuardDropLeaked(l) == l

(* The guard `b` is a local of the accessor and is dropped when the        *)
(* accessor returns (bot.rs:103-136).                                      *)
GuardDrop(l) == IF l = "held" THEN "free" ELSE l

(* One call of an accessor of Cache: lock, map lookup or insert, return.   *)
CacheCall(l) == GuardDrop(MutexLock(l))

RECURSIVE CacheCalls(_, _)
(* n calls in a row, as in the filter over the listing (bot.rs:623-634)    *)
CacheCalls(l, n) == IF n = 0 THEN l ELSE CacheCalls(CacheCall(l), n - 1)

(* A Cacher::get that keeps serving an entry after its expiry.             *)
CacherGetIgnoreExpiry(cacher, id, t) ==
    IF cacher[id].some THEN Some(cacher[id].val.item) ELSE None

(* Cacher::get (bot.rs:69-76): the item, if present and valid_until >= now *)
CacherGet(cacher, id, t) ==
    IF /\ cacher[id].some
       /\ cacher[id].val.valid_until.some
       /\ cacher[id].val.valid_until.val >= t
    THEN Some(cacher[id].val.item)
    ELSE None

(* Cacher::add (bot.rs:78-86) *)
CacherAdd(cacher, id, value, valid_until) ==
    [cacher EXCEPT ![id] = Some([item |-> value, valid_until |-> valid_until])]

(* Cache::get_project_config (bot.rs:124-127) at time t *)
GetProjectConfigAt(configs, project_id, t) == CacherGet(configs, project_id, t)

(* Cache::set_project_config (bot.rs:129-136) at time t *)
SetProjectConfigAt(configs, project_id, conf, t) ==
    CacherAdd(configs, project_id, conf, Some(t + ConfigTtl))

(* A merge_request_changed that never reports a merge request unchanged.   *)
MergeRequestChangedAlways(cache, mr) == TRUE

(* A merge_request_changed that looks for an entry only, not at its        *)
(* updated_at.                                                             *)
MergeRequestChangedNoEntryOnly(cache, mr) == ~cache[mr.id].some

(* Cache::merge_request_changed (bot.rs:103-109) *)
MergeRequestChanged(cache, mr) ==
    IF cache[mr.id].some /\ cache[mr.id].val.request.updated_at = mr.updated_at
    THEN FALSE
    ELSE TRUE

(* A get_merge_request that hands out the entry under the id whatever its  *)
(* updated_at.                                                             *)
GetMergeRequestStale(cache, mr) ==
    IF cache[mr.id].some THEN Some(cache[mr.id].val) ELSE None

(* Cache::get_merge_request (bot.rs:111-117) *)
GetMergeRequest(cache, mr) ==
    IF cache[mr.id].some /\ cache[mr.id].val.request.updated_at = mr.updated_at
    THEN Some(cache[mr.id].val)
    ELSE None

(* A set_merge_request that drops the snapshots of the other merge        *)
(* requests.                                                               *)
SetMergeRequestOnly(cache, full) ==
    [m \in DOMAIN cache |-> IF m = full.request.id THEN Some(full) ELSE None]

(* Cache::set_merge_request (bot.rs:119-122) *)
SetMergeRequest(cache, full) == [cache EXCEPT ![full.request.id] = Some(full)]

-----------------------------------------------------------------------------
(* The GitLab server *)

MaxMr == 7          \* merge request ids are 1..MaxMr
MaxHuman == 1       \* comments by a person per merge request
MaxPipelines == 1   \* pipelines per merge request
MaxDay == 6         \* the wall clock runs from 0 to MaxDay days
MaxCycles == 3      \* cycles of do_loop followed
MaxFailures == 1    \* requests the server answers with an error status

MrIds == 1..MaxMr

BotId == 100
HumanId == 7

PipelineStatuses == {"pending", "success", "failed"}

Tok(text) == <<text, "", 0>>

(* String::contains(marker) on a body of tokens *)
Contains(body, marker) == \E i \in 1..Len(body) : body[i][1] = marker

(* The jobs of a pipeline, in the order the jobs endpoint lists them. The  *)
(* lint job of a pipeline after the first is allowed to fail: it has       *)
(* failed where the pipeline has passed.                                   *)
JobsOf(pipeline) ==
    LET other == IF pipeline.status = "failed" THEN "failed"
                 ELSE IF pipeline.status = "success" THEN "success"
                 ELSE "running"
        lint == IF pipeline.status = "success" /\ pipeline.id > 1 THEN "failed" ELSE other
    IN  << [id |-> 10 * pipeline.id + 1, name |-> "build", status |-> "success"],
           [id |-> 10 * pipeline.id + 2, name |-> "test", status |-> other],
           [id |-> 10 * pipeline.id + 3, name |-> "lint", status |-> lint] >>

(* A parser that reads an unparsable file as one that disables the bot.   *)
ParseRepoFileLenient(file) ==
    IF file = "disabled" \/ file = "garbage" THEN Some(RepoConfigDisabled)
    ELSE IF file = "rules" THEN Some(RepoConfigRules)
    ELSE None

(* What a repository file parses to: toml::from_slice::<RepoConfig>.       *)
RepoFiles == {"absent", "garbage", "disabled", "rules"}

ParseRepoFile(file) ==
    IF file = "disabled" THEN Some(RepoConfigDisabled)
    ELSE IF file = "rules" THEN Some(RepoConfigRules)
    ELSE None

(* The merge request m as the server has it at first.                      *)
InitialMr(m) ==
    [id |-> m, project_id |-> IF m = 3 THEN 2 ELSE 1, updated_at |-> 0,
     title |-> IF m = 2 THEN "[ABC-1] fix bug" ELSE "fix bug",
     source_branch |-> IF m = 2 THEN "hotfix" ELSE "feature/x",
     assignee |-> IF m = 2 THEN Some(HumanId) ELSE None,
     author |-> HumanId]

InitGitlab(open, files, notes, pipelines) ==
    /\ gl_open = open
    /\ gl_mrs = [m \in MrIds |-> InitialMr(m)]
    /\ gl_branches = [m \in MrIds |-> [name |-> InitialMr(m).source_branch,
                                       committed_date |-> 0]]
    /\ gl_notes = notes
    /\ gl_note_count = [m \in MrIds |-> Len(notes[m])]
    /\ gl_pipelines = pipelines
    /\ gl_repo_file \in files

(* POST .../notes: the new note becomes the newest.                        *)
NotesCreate(notes, id, author, body, day) ==
    <<[id |-> id, author |-> Some(author), body |-> body, created_at |-> day]>> \o notes

(* PUT .../notes/:id *)
NotesUpdate(notes, id, body) ==
    [i \in 1..Len(notes) |-> IF notes[i].id = id THEN [notes[i] EXCEPT !.body = body]
                             ELSE notes[i]]

(* DELETE .../notes/:id *)
NotesDelete(notes, id) == SelectSeq(notes, LAMBDA n : n.id # id)

NotesHas(notes, id) == \E i \in 1..Len(notes) : notes[i].id = id

(* The listing of open merge requests, in id order.                        *)
RECURSIVE ListFrom(_, _, _)
ListFrom(m, open, mrs) ==
    IF m > MaxMr THEN <<>>
    ELSE (IF m \in open THEN <<mrs[m]>> ELSE <<>>) \o ListFrom(m + 1, open, mrs)

-----------------------------------------------------------------------------
(* The policy and report engine: the pure parts of process_merge_request  *)

(* bot.rs:347  reminder_days *)
ReminderDays == 5

(* Regex::new(p).ok() and Regex::is_match over the texts of the model.     *)
RegexNew(p) == IF p \in {"^\\[[A-Z]+-\\d+\\]", "^feature/"} THEN Some(p) ELSE None

IsMatch(re, text) ==
    \/ re = "^\\[[A-Z]+-\\d+\\]" /\ text = "[ABC-1] fix bug"
    \/ re = "^feature/" /\ text = "feature/x"

(* RepoMergeRequestConfig::title_regex / branch_regex (bot.rs:155-163) *)
TitleRegex(c) == IF c.title_pattern.some THEN RegexNew(c.title_pattern.val) ELSE None

BranchRegex(c) ==
    IF c.branch_name_pattern.some THEN RegexNew(c.branch_name_pattern.val) ELSE None

(* An is_disabled that takes no project for disabled.                     *)
IsDisabledNever(c) == FALSE

(* RepoConfig::is_disabled (bot.rs:175-177) *)
IsDisabled(c) == IF c.disabled.some THEN c.disabled.val ELSE FALSE

(* A has_bot_comment that does not drop the comments older than max_age.  *)
HasBotCommentAnyAge(full, marker, max_age_days, d) ==
    \E i \in 1..Len(full.bot_comments) : Contains(full.bot_comments[i].body, marker)

(* FullMergeRequest::has_bot_comment (bot.rs:33-51), at wall-clock day d   *)
HasBotComment(full, marker, max_age_days, d) ==
    \E i \in 1..Len(full.bot_comments) :
        LET c == full.bot_comments[i]
        IN  /\ ~(max_age_days.some /\ c.created_at < d - max_age_days.val)
            /\ Contains(c.body, marker)

(* bot.rs:315-319  the comments whose author is the bot *)
BotComments(comments, bot_id) ==
    SelectSeq(comments, LAMBDA c : IF c.author.some THEN c.author.val = bot_id ELSE FALSE)

(* process_merge_request_reminder (bot.rs:344-367): is a reminder posted?  *)
ReminderDue(full, d) ==
    /\ full.source_branch.committed_date < d - ReminderDays
    /\ ~HasBotComment(full, "[reminder]", Some(ReminderDays), d)

ReminderBody ==
    << <<"friendly reminder: this merge request has not been updated for days", "",
         ReminderDays>>,
       Tok("[reminder]") >>

(* bot.rs:391-425 *)
TitleRe(full) ==
    IF full.repo_config.merge_requests.some
    THEN TitleRegex(full.repo_config.merge_requests.val)
    ELSE None

(* A title check that does not look for an earlier warning.               *)
TitleWarningDueNoLookup(full, d) ==
    /\ TitleRe(full).some
    /\ ~IsMatch(TitleRe(full).val, full.request.title)

TitleWarningDue(full, d) ==
    /\ TitleRe(full).some
    /\ ~IsMatch(TitleRe(full).val, full.request.title)
    /\ ~HasBotComment(full, "[title_warning]", None, d)

TitleWarningBody(full) ==
    LET c == full.repo_config.merge_requests.val
    IN  << Tok("The merge request title is invalid."),
           IF c.title_error.some THEN <<c.title_error.val, "", 0>>
           ELSE <<"Merge request title should match the pattern:", TitleRe(full).val, 0>>,
           Tok("[title_warning]") >>

(* bot.rs:428-466 *)
BranchRe(full) ==
    IF full.repo_config.merge_requests.some
    THEN BranchRegex(full.repo_config.merge_requests.val)
    ELSE None

BranchWarningDue(full, d) ==
    /\ BranchRe(full).some
    /\ ~IsMatch(BranchRe(full).val, full.source_branch.name)
    /\ ~HasBotComment(full, "[branch_name_warning]", None, d)

BranchWarningBody(full) ==
    LET c == full.repo_config.merge_requests.val
    IN  << Tok("The branch name is invalid."),
           IF c.branch_name_error.some THEN <<c.branch_name_error.val, "", 0>>
           ELSE <<"Branch name should match the pattern:", BranchRe(full).val, 0>>,
           Tok("[branch_name_warning]") >>

(* A validation_msg without the line on the reviewer.                     *)
ValidationMsgNoReviewer(full) ==
    LET mark(ok) == IF ok THEN "x" ELSE " :warning:"
        title == IF TitleRe(full).some
                 THEN << <<"Valid Merge Request Title",
                           mark(IsMatch(TitleRe(full).val, full.request.title)), 0>> >>
                 ELSE <<>>
        branch == IF BranchRe(full).some
                  THEN << <<"Valid Branch Name",
                            mark(IsMatch(BranchRe(full).val, full.source_branch.name)), 0>> >>
                  ELSE <<>>
    IN  title \o branch

(* validation_msg (bot.rs:389, 420-424, 461-465, 469-473) *)
ValidationMsg(full) ==
    LET mark(ok) == IF ok THEN "x" ELSE " :warning:"
        title == IF TitleRe(full).some
                 THEN << <<"Valid Merge Request Title",
                           mark(IsMatch(TitleRe(full).val, full.request.title)), 0>> >>
                 ELSE <<>>
        branch == IF BranchRe(full).some
                  THEN << <<"Valid Branch Name",
                            mark(IsMatch(BranchRe(full).val, full.source_branch.name)), 0>> >>
                  ELSE <<>>
    IN  title \o branch \o << <<"Reviewer selected", mark(full.request.assignee.some), 0>> >>

(* A selection of the failed jobs that keeps every job.                   *)
FailedJobsAll(jobs) == jobs

(* bot.rs:483-490 *)
FailedJobs(jobs) == SelectSeq(jobs, LAMBDA j : j.status = "failed")

SuccessJobs(jobs) == SelectSeq(jobs, LAMBDA j : j.status = "success")

(* The section of one failed job (bot.rs:518-527): name, job url, trace.   *)
JobSection(job) == << <<"Job:", job.name, job.id>>, <<"Show Logs", job.name, job.id>> >>

(* The build-status part of msg (bot.rs:476-542); traces holds the         *)
(* sections pushed by the loop over the failed jobs.                       *)
BuildMsg(full, jobs, traces) ==
    IF Len(full.pipelines) > 0
    THEN LET pipeline == full.pipelines[1]
             success == SuccessJobs(jobs)
         IN  <<Tok("## Build Status")>> \o
             (IF pipeline.status = "failed"
              THEN <<Tok("Pipeline failed! :warning:")>> \o traces
              ELSE IF pipeline.status = "success"
              THEN <<Tok("Pipeline passed! :rocket:")>> \o
                   [i \in 1..Len(success) |-> <<"job", success[i].name, success[i].id>>]
              ELSE IF pipeline.status = "pending"
              THEN <<Tok("Pipeline is running... ")>>
              ELSE <<>>)
    ELSE <<>>

(* msg as it stands at bot.rs:548-553 *)
ReportMsg(full, jobs, traces) ==
    LET validation == ValidationMsg(full)
        msg == BuildMsg(full, jobs, traces) \o
               (IF validation # <<>> THEN <<Tok("## Validation")>> \o validation ELSE <<>>)
    IN  IF msg # <<>> THEN msg \o <<Tok("[report]")>> ELSE <<>>

(* A comparison that takes every rendered report for an unchanged one.    *)
HasChangesNever(full, msg) == FALSE

(* A comparison that takes every rendered report for a changed one.       *)
HasChangesAlways(full, msg) == TRUE

(* bot.rs:554-558 *)
HasChanges(full, msg) ==
    LET reports == SelectSeq(full.bot_comments, LAMBDA c : Contains(c.body, "[report]"))
    IN  IF Len(reports) > 0 THEN reports[1].body # msg ELSE TRUE

(* An update_id that takes the newest comment of the bot, wherever it is   *)
(* in the list.                                                            *)
UpdateIdFirstBot(full, bot_id) ==
    IF /\ Len(full.bot_comments) > 0
       /\ Contains(full.bot_comments[1].body, "[report]")
    THEN Some(full.bot_comments[1].id)
    ELSE None

(* bot.rs:569-577 *)
UpdateId(full, bot_id) ==
    IF /\ Len(full.comments) > 0
       /\ (IF full.comments[1].author.some THEN full.comments[1].author.val = bot_id
           ELSE FALSE)
       /\ Contains(full.comments[1].body, "[report]")
    THEN Some(full.comments[1].id)
    ELSE None

(* A prune that does not skip the newest comment of the bot.               *)
DeleteListAll(full, bot_id) ==
    LET old == SelectSeq(full.bot_comments, LAMBDA c : Contains(c.body, "[report]"))
    IN  [i \in 1..Len(old) |-> old[i].id]

(* bot.rs:595-603  the ids deleted: bot_comments.skip(1) containing [report] *)
DeleteList(full, bot_id) ==
    LET rest == SubSeq(full.bot_comments, 2, Len(full.bot_comments))
        old == SelectSeq(rest, LAMBDA c : Contains(c.body, "[report]"))
    IN  [i \in 1..Len(old) |-> old[i].id]

-----------------------------------------------------------------------------
(* process_merge_request (bot.rs:369-607) with full_merge_request          *)
(* (bot.rs:275-341) and cached_repo_config (bot.rs:246-273): one step per  *)
(* await, each step running the code from one response to the next request *)

(* bot.rs:664  .buffered(5) *)
BufferSize == 5

(* bot.rs:201  interval: 60 * 5 seconds, in minutes *)
Interval == 5

EmptyFull ==
    [project |-> None, request |-> None, source_branch |-> None, comments |-> <<>>,
     bot_comments |-> <<>>, pipelines |-> <<>>, repo_config |-> None]

(* A process_merge_request future: pc names the request it awaits; jobs,   *)
(* traces and k are the locals of the report assembly and of the loops.    *)
IdleTask ==
    [pc |-> "idle", result |-> "none", full |-> EmptyFull, jobs |-> <<>>,
     traces |-> <<>>, k |-> 0]

Await(t, pc) == [t EXCEPT !.pc = pc]

Finished(res) == [IdleTask EXCEPT !.pc = "done", !.result = res]

FetchPcs == {"project", "repo_file", "branch", "commits_source", "commits_target",
             "comments", "pipelines", "pipeline_jobs", "job_trace"}

WritePcs == {"reminder", "title_warning", "branch_warning", "report", "delete"}

(* bot.rs:594-603  the loop over the older reports, before its k-th delete *)
StageDelete(t, bot_id) ==
    IF t.k <= Len(DeleteList(t.full, bot_id)) THEN Await(t, "delete") ELSE Finished("ok")

(* bot.rs:544-592  the report is rendered, compared and written            *)
StageReport(t, bot_id) ==
    LET msg == ReportMsg(t.full, t.jobs, t.traces)
    IN  IF msg = <<>> THEN Finished("ok")
        ELSE IF ~HasChanges(t.full, msg) THEN Finished("ok")
        ELSE Await(t, "report")

(* A loop over the failed jobs that stops after the first of them.         *)
StageTracesFirstOnly(t, bot_id) ==
    IF t.full.pipelines[1].status = "failed" /\ t.k <= Min(1, Len(FailedJobs(t.jobs)))
    THEN Await(t, "job_trace")
    ELSE StageReport([t EXCEPT !.k = 0], bot_id)

(* bot.rs:509-541  the loop over the failed jobs, before its k-th trace    *)
StageTraces(t, bot_id) ==
    IF t.full.pipelines[1].status = "failed" /\ t.k <= Len(FailedJobs(t.jobs))
    THEN Await(t, "job_trace")
    ELSE StageReport([t EXCEPT !.k = 0], bot_id)

(* bot.rs:469-482 *)
StagePipeline(t, bot_id) ==
    IF Len(t.full.pipelines) > 0 THEN Await(t, "pipeline_jobs") ELSE StageReport(t, bot_id)

(* bot.rs:428-467 *)
StageBranch(t, bot_id, d) ==
    IF BranchWarningDue(t.full, d) THEN Await(t, "branch_warning")
    ELSE StagePipeline(t, bot_id)

(* bot.rs:391-426 *)
StageTitle(t, bot_id, d) ==
    IF TitleWarningDue(t.full, d) THEN Await(t, "title_warning")
    ELSE StageBranch(t, bot_id, d)

(* bot.rs:380-385 *)
Policy(t, bot_id, d) ==
    IF IsDisabled(t.full.repo_config) THEN Finished("ok")
    ELSE IF ReminderDue(t.full, d) THEN Await(t, "reminder")
    ELSE StageTitle(t, bot_id, d)

(* The comment write a future at a write await has in flight.              *)
WriteOf(t, bot_id) ==
    IF t.pc = "reminder" THEN [op |-> "create", marker |-> "[reminder]", id |-> 0]
    ELSE IF t.pc = "title_warning" THEN [op |-> "create", marker |-> "[title_warning]", id |-> 0]
    ELSE IF t.pc = "branch_warning"
    THEN [op |-> "create", marker |-> "[branch_name_warning]", id |-> 0]
    ELSE IF t.pc = "report"
    THEN (IF UpdateId(t.full, bot_id).some
          THEN [op |-> "update", marker |-> "[report]", id |-> UpdateId(t.full, bot_id).val]
          ELSE [op |-> "create", marker |-> "[report]", id |-> 0])
    ELSE [op |-> "delete", marker |-> "[report]", id |-> DeleteList(t.full, bot_id)[t.k]]

(* What a run saw of its merge request, apart from comments and updated_at *)
ViewOf(full) ==
    [title |-> IF full.request = None THEN "" ELSE full.request.title,
     assignee |-> IF full.request = None THEN None ELSE full.request.assignee,
     source_branch |-> full.source_branch,
     pipelines |-> full.pipelines,
     repo_config |-> full.repo_config]

NoPass == [result |-> "none", view |-> ViewOf(EmptyFull), comments |-> <<>>,
           notes_after |-> <<>>, day |-> 0, writes |-> <<>>, clean |-> TRUE]

(* The future of merge request m moves from t to t2: the request t2 awaits *)
(* has been sent; a resolved future leaves its record of the run.          *)
Advance(m, t, t2) ==
    /\ task' = [task EXCEPT ![m] = t2]
    /\ fetches' = [fetches EXCEPT
                     ![m] = IF t2.pc \in FetchPcs THEN Append(@, t2.pc) ELSE @]
    /\ writes' = [writes EXCEPT
                    ![m] = IF t2.pc \in WritePcs THEN Append(@, WriteOf(t2, BotId)) ELSE @]
    /\ passes' = [passes EXCEPT
                    ![m] = IF t2.pc = "done"
                           THEN <<@[2],
                                  IF t2.result = "ok"
                                  THEN [result |-> "ok", view |-> ViewOf(t.full),
                                        comments |-> t.full.comments,
                                        notes_after |-> gl_notes'[m], day |-> today,
                                        writes |-> writes[m], clean |-> @[2].clean]
                                  ELSE [NoPass EXCEPT !.result = "err", !.clean = FALSE]>>
                           ELSE @]
    /\ failures' = IF t2.pc = "done" /\ t2.result = "err" THEN failures + 1 ELSE failures
    /\ UNCHANGED unchanged_at_list

not_task_cache_vars == <<page_vars, cache_obs_vars, today, sched_vars>>

not_task_vars == <<not_task_cache_vars, mutex>>

(* The server answers a request with 200, or with an error status while    *)
(* it has failed fewer than MaxFailures requests.                          *)
MayAnswer(status) == status = 200 \/ failures < MaxFailures

gl_fixed_vars == <<gl_open, gl_mrs, gl_branches, gl_pipelines, gl_repo_file>>

(* A buffered() that holds one future more than its argument.              *)
WindowHasRoomOffByOne(w) == Len(w) <= BufferSize

(* stream::Buffered::poll: futures are taken from the stream while fewer   *)
(* than 5 are held (bot.rs:664)                                            *)
WindowHasRoom(w) == Len(w) < BufferSize

(* buffered(5) takes the next merge request from the stream and polls its  *)
(* future for the first time: process_merge_request runs to its first      *)
(* await (bot.rs:370-378, 281-287).                                        *)
StartTask ==
    /\ loop_pc = "buffered"
    /\ stream # <<>>
    /\ WindowHasRoom(window)
    /\ UNCHANGED <<page_vars, cache_obs_vars, today, now, project_configs, merge_requests,
                   gl_vars, loop_pc, cycle, user, process_result>>
    /\ mutex' = CacheCall(mutex)
    /\ LET mr == Head(stream)
           cached == GetMergeRequest(merge_requests, mr)
           t == IF cached.some THEN [IdleTask EXCEPT !.full = cached.val]
                ELSE [IdleTask EXCEPT !.full.request = mr]
           t2 == IF cached.some THEN Policy(t, user.val.id, today) ELSE Await(t, "project")
       IN  /\ stream' = Tail(stream)
           /\ window' = Append(window, mr.id)
           /\ Advance(mr.id, t, t2)

(* GET projects/:id answered (bot.rs:287), then cached_repo_config up to   *)
(* its await or, on a cache hit, the branch request (bot.rs:248-254, 291)  *)
ProjectResponse(m, status) ==
    /\ MayAnswer(status)
    /\ task[m].pc = "project"
    /\ UNCHANGED <<not_task_cache_vars, now, project_configs, merge_requests, gl_vars>>
    /\ mutex' = IF SendIsErr(status) THEN mutex ELSE CacheCall(mutex)
    /\ LET pid == task[m].full.request.project_id
           t == [task[m] EXCEPT !.full.project = [id |-> pid]]
           conf == GetProjectConfigAt(project_configs, pid, now)
       IN  IF SendIsErr(status) THEN Advance(m, task[m], Finished("err"))
           ELSE IF conf.some
           THEN Advance(m, t, Await([t EXCEPT !.full.repo_config = conf.val], "branch"))
           ELSE Advance(m, t, Await(t, "repo_file"))

(* GET .../files/.gitlab-bot.toml/raw answered (bot.rs:254-271): a failed  *)
(* request or an unparsable file gives the default config; the config is   *)
(* cached; then the branch request (bot.rs:291).                           *)
RepoFileResponse(m, status) ==
    /\ MayAnswer(status)
    /\ task[m].pc = "repo_file"
    /\ UNCHANGED <<not_task_cache_vars, now, merge_requests, gl_vars>>
    /\ mutex' = CacheCall(mutex)
    /\ LET pid == task[m].full.project.id
           file == gl_repo_file[pid]
           parsed == IF SendIsErr(status) \/ file = "absent" THEN None
                     ELSE ParseRepoFile(file)
           config == IF parsed.some THEN parsed.val ELSE RepoConfigDefault
           t == [task[m] EXCEPT !.full.repo_config = config]
       IN  /\ project_configs' = SetProjectConfigAt(project_configs, pid, config, now)
           /\ Advance(m, t, Await(t, "branch"))

(* GET .../branches/:branch answered (bot.rs:291-295), then the commits of *)
(* the source branch are requested (bot.rs:297).                           *)
BranchResponse(m, status) ==
    /\ MayAnswer(status)
    /\ task[m].pc = "branch"
    /\ UNCHANGED <<not_task_vars, now, project_configs, merge_requests, gl_vars>>
    /\ LET t == [task[m] EXCEPT !.full.source_branch = gl_branches[m]]
       IN  IF SendIsErr(status) THEN Advance(m, task[m], Finished("err"))
           ELSE Advance(m, t, Await(t, "commits_source"))

(* GET .../commits?ref= answered for the source branch (bot.rs:297-301),   *)
(* then for the target branch (bot.rs:303-307); then the notes are         *)
(* requested (bot.rs:310). The commits take no part in any decision.       *)
CommitsResponse(m, status) ==
    /\ MayAnswer(status)
    /\ task[m].pc \in {"commits_source", "commits_target"}
    /\ UNCHANGED <<not_task_vars, now, project_configs, merge_requests, gl_vars>>
    /\ IF SendIsErr(status) THEN Advance(m, task[m], Finished("err"))
       ELSE IF task[m].pc = "commits_source"
       THEN Advance(m, task[m], Await(task[m], "commits_target"))
       ELSE Advance(m, task[m], Await(task[m], "comments"))

(* GET .../notes answered (bot.rs:310-319), then the pipelines are         *)
(* requested (bot.rs:321).                                                 *)
CommentsResponse(m, status) ==
    /\ MayAnswer(status)
    /\ task[m].pc = "comments"
    /\ UNCHANGED <<not_task_vars, now, project_configs, merge_requests, gl_vars>>
    /\ LET t == [task[m] EXCEPT !.full.comments = gl_notes[m],
                                !.full.bot_comments = BotComments(gl_notes[m], user.val.id)]
       IN  IF SendIsErr(status) THEN Advance(m, task[m], Finished("err"))
           ELSE Advance(m, t, Await(t, "pipelines"))

(* A pipelines step that goes on to the policy without pipelines when the  *)
(* request has failed.                                                     *)
PipelinesResponseContinues(m, status) ==
    /\ MayAnswer(status)
    /\ task[m].pc = "pipelines"
    /\ UNCHANGED <<not_task_cache_vars, now, project_configs, gl_vars>>
    /\ mutex' = IF SendIsErr(status) THEN mutex ELSE CacheCall(mutex)
    /\ LET t == [task[m] EXCEPT !.full.pipelines = gl_pipelines[m]]
       IN  IF SendIsErr(status)
           THEN /\ Advance(m, task[m], Policy(task[m], user.val.id, today))
                /\ UNCHANGED merge_requests
           ELSE /\ merge_requests' = SetMergeRequest(merge_requests, t.full)
                /\ Advance(m, t, Policy(t, user.val.id, today))

(* GET .../pipelines answered (bot.rs:321-341): the snapshot is complete   *)
(* and cached; process_merge_request goes on to its next await             *)
(* (bot.rs:380-482).                                                       *)
PipelinesResponse(m, status) ==
    /\ MayAnswer(status)
    /\ task[m].pc = "pipelines"
    /\ UNCHANGED <<not_task_cache_vars, now, project_configs, gl_vars>>
    /\ mutex' = IF SendIsErr(status) THEN mutex ELSE CacheCall(mutex)
    /\ LET t == [task[m] EXCEPT !.full.pipelines = gl_pipelines[m]]
       IN  IF SendIsErr(status)
           THEN /\ Advance(m, task[m], Finished("err"))
                /\ UNCHANGED merge_requests
           ELSE /\ merge_requests' = SetMergeRequest(merge_requests, t.full)
                /\ Advance(m, t, Policy(t, user.val.id, today))

(* The POST of a reminder or of a warning answered (bot.rs:358-362,        *)
(* 413-417, 454-458): the server has the new note; on to the next await.   *)
WarningResponse(m, status) ==
    /\ MayAnswer(status)
    /\ task[m].pc \in {"reminder", "title_warning", "branch_warning"}
    /\ UNCHANGED <<not_task_vars, now, project_configs, merge_requests, gl_fixed_vars>>
    /\ LET t == task[m]
           body == IF t.pc = "reminder" THEN ReminderBody
                   ELSE IF t.pc = "title_warning" THEN TitleWarningBody(t.full)
                   ELSE BranchWarningBody(t.full)
           next == IF t.pc = "reminder" THEN StageTitle(t, user.val.id, today)
                   ELSE IF t.pc = "title_warning" THEN StageBranch(t, user.val.id, today)
                   ELSE StagePipeline(t, user.val.id)
       IN  IF SendIsErr(status)
           THEN /\ UNCHANGED <<gl_notes, gl_note_count>>
                /\ Advance(m, t, Finished("err"))
           ELSE /\ gl_notes' = [gl_notes EXCEPT
                                  ![m] = NotesCreate(@, gl_note_count[m] + 1, user.val.id,
                                                     body, today)]
                /\ gl_note_count' = [gl_note_count EXCEPT ![m] = @ + 1]
                /\ Advance(m, t, next)

(* GET .../pipelines/:id/jobs answered (bot.rs:482-490), then the loop     *)
(* over the failed jobs or the report (bot.rs:509-592).                    *)
PipelineJobsResponse(m, status) ==
    /\ MayAnswer(status)
    /\ task[m].pc = "pipeline_jobs"
    /\ UNCHANGED <<not_task_vars, now, project_configs, merge_requests, gl_vars>>
    /\ LET t == [task[m] EXCEPT !.jobs = JobsOf(task[m].full.pipelines[1]), !.k = 1]
       IN  IF SendIsErr(status) THEN Advance(m, task[m], Finished("err"))
           ELSE Advance(m, t, StageTraces(t, user.val.id))

(* GET .../jobs/:id/trace answered (bot.rs:516-527): the job's section is  *)
(* pushed; the next failed job, or the report.                             *)
JobTraceResponse(m, status) ==
    /\ MayAnswer(status)
    /\ task[m].pc = "job_trace"
    /\ UNCHANGED <<not_task_vars, now, project_configs, merge_requests, gl_vars>>
    /\ LET job == FailedJobs(task[m].jobs)[task[m].k]
           t == [task[m] EXCEPT !.traces = @ \o JobSection(job), !.k = @ + 1]
       IN  IF SendIsErr(status) THEN Advance(m, task[m], Finished("err"))
           ELSE Advance(m, t, StageTraces(t, user.val.id))

(* The PUT or POST of the report answered (bot.rs:579-592), then the loop  *)
(* over the older reports (bot.rs:594-603).                                *)
ReportResponse(m, status) ==
    /\ MayAnswer(status)
    /\ task[m].pc = "report"
    /\ UNCHANGED <<not_task_vars, now, project_configs, merge_requests, gl_fixed_vars>>
    /\ LET t == task[m]
           msg == ReportMsg(t.full, t.jobs, t.traces)
           update_id == UpdateId(t.full, user.val.id)
           gone == update_id.some /\ ~NotesHas(gl_notes[m], update_id.val)
           t2 == [t EXCEPT !.k = 1]
       IN  IF SendIsErr(status) \/ gone
           THEN /\ UNCHANGED <<gl_notes, gl_note_count>>
                /\ Advance(m, t, Finished("err"))
           ELSE IF update_id.some
           THEN /\ gl_notes' = [gl_notes EXCEPT ![m] = NotesUpdate(@, update_id.val, msg)]
                /\ UNCHANGED gl_note_count
                /\ Advance(m, t, StageDelete(t2, user.val.id))
           ELSE /\ gl_notes' = [gl_notes EXCEPT
                                  ![m] = NotesCreate(@, gl_note_count[m] + 1, user.val.id,
                                                     msg, today)]
                /\ gl_note_count' = [gl_note_count EXCEPT ![m] = @ + 1]
                /\ Advance(m, t, StageDelete(t2, user.val.id))

(* The DELETE of an older report answered (bot.rs:597-601).                *)
DeleteResponse(m, status) ==
    /\ MayAnswer(status)
    /\ task[m].pc = "delete"
    /\ UNCHANGED <<not_task_vars, now, project_configs, merge_requests, gl_fixed_vars,
                   gl_note_count>>
    /\ LET t == task[m]
           id == DeleteList(t.full, user.val.id)[t.k]
           t2 == [t EXCEPT !.k = @ + 1]
       IN  IF SendIsErr(status) \/ ~NotesHas(gl_notes[m], id)
           THEN /\ UNCHANGED gl_notes
                /\ Advance(m, t, Finished("err"))
           ELSE /\ gl_notes' = [gl_notes EXCEPT ![m] = NotesDelete(@, id)]
                /\ Advance(m, t, StageDelete(t2, user.val.id))

(* A process_merge_request future, taken as a whole, resolves.             *)
TaskResolves(m, res) ==
    /\ task[m].pc \notin {"idle", "done"}
    /\ UNCHANGED <<not_task_vars, now, project_configs, merge_requests, gl_vars>>
    /\ Advance(m, task[m], Finished(res))

-----------------------------------------------------------------------------
(* Bot::process (bot.rs:609-671) and Bot::do_loop (bot.rs:673-688)         *)

(* A closure that hands the error of process_merge_request on to the       *)
(* stream instead of logging it.                                           *)
ItemResultPropagated(res) == res

(* bot.rs:645-662  the result of a stream item: the outcome is logged and  *)
(* replaced by future::ok(())                                              *)
ItemResult(res) == "ok"

(* bot.rs:623-634  the listing without the unchanged merge requests        *)
(* A do_loop that hands the error of process() on with the ? operator.     *)
AfterProcessTry(res) == IF res = "err" THEN "exit" ELSE "timeout"

(* A do_loop that calls process() again at once after an error.           *)
AfterProcessNoTimer(res) == IF res = "err" THEN "loop" ELSE "timeout"

(* bot.rs:677-686  whatever process() returned, do_loop goes on to its     *)
(* timer                                                                   *)
AfterProcess(res) == "timeout"

FilterChanged(mrs, cache) == SelectSeq(mrs, LAMBDA mr : MergeRequestChanged(cache, mr))

not_sched_cache_vars == <<page_vars, cache_obs_vars, today, project_configs,
                          merge_requests, gl_vars>>

not_sched_vars == <<not_sched_cache_vars, mutex>>

(* do_loop calls process(), which requests the current user (bot.rs:616).  *)
LoopStart ==
    /\ loop_pc = "loop"
    /\ cycle < MaxCycles
    /\ cycle' = cycle + 1
    /\ loop_pc' = "user"
    /\ process_result' = "none"
    /\ UNCHANGED <<not_sched_vars, now, user, stream, window, task, obs_vars>>

(* An identity lookup whose failure is passed over: the listing is         *)
(* requested all the same.                                                 *)
UserResponseLenient(status) ==
    /\ MayAnswer(status)
    /\ loop_pc = "user"
    /\ loop_pc' = "merge_requests"
    /\ user' = Some([id |-> BotId])
    /\ failures' = IF SendIsErr(status) THEN failures + 1 ELSE failures
    /\ UNCHANGED <<not_sched_vars, now, cycle, stream, window, task, writes, fetches,
                   unchanged_at_list, passes, process_result>>

(* GET user answered (bot.rs:616-620): on an error process() returns it    *)
(* and do_loop sets its timer (bot.rs:680-686); else the merge requests    *)
(* are requested.                                                          *)
UserResponse(status) ==
    /\ MayAnswer(status)
    /\ loop_pc = "user"
    /\ IF SendIsErr(status)
       THEN /\ loop_pc' = AfterProcess("err")
            /\ process_result' = "err"
            /\ failures' = failures + 1
            /\ UNCHANGED user
       ELSE /\ loop_pc' = "merge_requests"
            /\ user' = Some([id |-> BotId])
            /\ UNCHANGED <<process_result, failures>>
    /\ UNCHANGED <<not_sched_vars, now, cycle, stream, window, task, writes, fetches,
                   unchanged_at_list, passes>>

(* GET merge_requests?scope=all&state=opened answered (bot.rs:620-637):    *)
(* on an error process() returns it; else the unchanged merge requests     *)
(* are dropped and the rest becomes the stream under buffered(5).          *)
MergeRequestsResponse(status) ==
    /\ MayAnswer(status)
    /\ loop_pc = "merge_requests"
    /\ IF SendIsErr(status)
       THEN /\ loop_pc' = AfterProcess("err")
            /\ process_result' = "err"
            /\ failures' = failures + 1
            /\ UNCHANGED <<stream, window, unchanged_at_list, mutex>>
       ELSE LET mrs == ListFrom(1, gl_open, gl_mrs)
            IN  /\ loop_pc' = "buffered"
                /\ stream' = FilterChanged(mrs, merge_requests)
                /\ window' = <<>>
                /\ unchanged_at_list' =
                       {m \in gl_open : /\ merge_requests[m].some
                                        /\ merge_requests[m].val.request.updated_at
                                               = gl_mrs[m].updated_at}
                /\ mutex' = CacheCalls(mutex, Len(mrs))
                /\ UNCHANGED <<process_result, failures>>
    /\ UNCHANGED <<not_sched_cache_vars, now, cycle, user, task, writes, fetches, passes>>

(* buffered(5) yields the result of its oldest future once it is resolved  *)
(* (results come in submission order); an Err item would end collect()     *)
(* and process() with that error, dropping the futures still held.         *)
Yield ==
    /\ loop_pc = "buffered"
    /\ window # <<>>
    /\ task[Head(window)].pc = "done"
    /\ IF ItemResult(task[Head(window)].result) = "ok"
       THEN /\ window' = Tail(window)
            /\ UNCHANGED <<loop_pc, stream, process_result, task>>
       ELSE /\ window' = <<>>
            /\ stream' = <<>>
            /\ loop_pc' = AfterProcess("err")
            /\ process_result' = "err"
            /\ task' = [m \in MrIds |-> IF task[m].pc = "done" THEN task[m] ELSE IdleTask]
    /\ UNCHANGED <<not_sched_vars, now, cycle, user, obs_vars>>

(* A collect() that is done as soon as the stream is exhausted, and drops  *)
(* the futures that buffered(5) still holds.                               *)
ProcessCompleteEarly ==
    /\ loop_pc = "buffered"
    /\ stream = <<>>
    /\ loop_pc' = AfterProcess("ok")
    /\ process_result' = "ok"
    /\ window' = <<>>
    /\ task' = [m \in MrIds |-> IF task[m].pc = "done" THEN task[m] ELSE IdleTask]
    /\ UNCHANGED <<not_sched_vars, now, cycle, user, stream, obs_vars>>

(* The stream is exhausted and no future is held: collect() is done,       *)
(* process_complete is logged, process() returns Ok (bot.rs:666-670) and   *)
(* do_loop sets its timer (bot.rs:686).                                    *)
ProcessComplete ==
    /\ loop_pc = "buffered"
    /\ stream = <<>>
    /\ window = <<>>
    /\ loop_pc' = AfterProcess("ok")
    /\ process_result' = "ok"
    /\ UNCHANGED <<not_sched_vars, now, cycle, user, stream, window, task, obs_vars>>

(* The timer of do_loop fires after the interval (bot.rs:686); nothing of  *)
(* the finished process() is left but its result and the cache.            *)
Timeout ==
    /\ loop_pc = "timeout"
    /\ loop_pc' = "loop"
    /\ now' = now + Interval
    /\ user' = None
    /\ task' = [m \in MrIds |-> IdleTask]
    /\ writes' = [m \in MrIds |-> <<>>]
    /\ fetches' = [m \in MrIds |-> <<>>]
    /\ unchanged_at_list' = {}
    /\ UNCHANGED <<not_sched_vars, cycle, stream, window, process_result, passes,
                   failures>>

-----------------------------------------------------------------------------
(* What happens at the server and to the clocks between two cycles         *)

not_gl_vars == <<page_vars, cache_obs_vars, mutex, now, project_configs, today,
                 merge_requests, task, sched_vars, obs_vars>>

(* Between two cycles: do_loop is about to call process() once more.       *)
BetweenCycles == loop_pc = "loop" /\ 0 < cycle /\ cycle < MaxCycles

(* A person comments on the merge request.                                 *)
HumanComment(m) ==
    /\ BetweenCycles
    /\ Len(BotComments(gl_notes[m], HumanId)) < MaxHuman
    /\ gl_notes' = [gl_notes EXCEPT
                      ![m] = NotesCreate(@, gl_note_count[m] + 1, HumanId,
                                         <<Tok("looks good to me")>>, today)]
    /\ gl_note_count' = [gl_note_count EXCEPT ![m] = @ + 1]
    /\ UNCHANGED <<gl_fixed_vars, not_gl_vars>>

(* A new pipeline starts for the merge request.                            *)
NewPipeline(m) ==
    /\ BetweenCycles
    /\ Len(gl_pipelines[m]) < MaxPipelines
    /\ gl_pipelines' = [gl_pipelines EXCEPT
                          ![m] = <<[id |-> Len(@) + 1, status |-> "pending"]>> \o @]
    /\ UNCHANGED <<gl_open, gl_mrs, gl_branches, gl_notes, gl_note_count, gl_repo_file,
                   not_gl_vars>>

(* The running pipeline of the merge request ends.                         *)
PipelineEnds(m, status) ==
    /\ BetweenCycles
    /\ Len(gl_pipelines[m]) > 0
    /\ gl_pipelines[m][1].status = "pending"
    /\ gl_pipelines' = [gl_pipelines EXCEPT ![m][1].status = status]
    /\ UNCHANGED <<gl_open, gl_mrs, gl_branches, gl_notes, gl_note_count, gl_repo_file,
                   not_gl_vars>>

(* The server moves updated_at of the merge request forward, which it does *)
(* once between two cycles: a second move would show the bot nothing new.  *)
Touch(m) ==
    /\ BetweenCycles
    /\ gl_mrs[m].updated_at < cycle
    /\ gl_mrs' = [gl_mrs EXCEPT ![m].updated_at = @ + 1]
    /\ UNCHANGED <<gl_open, gl_branches, gl_notes, gl_note_count, gl_pipelines,
                   gl_repo_file, not_gl_vars>>

(* More than the reminder period passes with nothing for the bot to do.    *)
DaysPass ==
    /\ BetweenCycles
    /\ today + ReminderDays + 1 <= MaxDay
    /\ today' = today + ReminderDays + 1
    /\ UNCHANGED <<page_vars, cache_obs_vars, mutex, now, project_configs, merge_requests,
                   task, sched_vars, obs_vars, gl_vars>>

-----------------------------------------------------------------------------
(* Specifications *)

MainMrs == {1}

NoNotes == [m \in MrIds |-> <<>>]

NoPipelines == [m \in MrIds |-> <<>>]

NoRepoFiles == [p \in ProjectIds |-> "absent"]

InitClockAndCache ==
    /\ now = 0
    /\ project_configs = [p \in ProjectIds |-> None]
    /\ last_set = [p \in ProjectIds |-> None]
    /\ got = None
    /\ mutex = "free"

InitScheduler ==
    /\ merge_requests = [m \in MrIds |-> None]
    /\ loop_pc = "loop"
    /\ cycle = 0
    /\ user = None
    /\ stream = <<>>
    /\ window = <<>>
    /\ process_result = "none"
    /\ task = [m \in MrIds |-> IdleTask]
    /\ writes = [m \in MrIds |-> <<>>]
    /\ fetches = [m \in MrIds |-> <<>>]
    /\ unchanged_at_list = {}
    /\ passes = [m \in MrIds |-> <<NoPass, NoPass>>]
    /\ failures = 0

InitBot ==
    /\ today = 0
    /\ InitScheduler

(* ---- SpecPage ---- *)
InitPage ==
    /\ InitClockAndCache
    /\ InitGitlab({}, {NoRepoFiles}, NoNotes, NoPipelines)
    /\ InitBot
    /\ max_pages \in {None} \cup {Some(x) : x \in 0..MaxCap}
    /\ header \in Headers
    /\ op = "none"
    /\ lp_pc = "start"
    /\ page = 0
    /\ last_page = 0
    /\ items = <<>>
    /\ sent = <<>>
    /\ statuses = <<>>
    /\ lp_result = "none"

NextPage ==
    \/ LoadPaginated
    \/ \E status \in HttpStatuses : FirstResponse(status)
    \/ \E status \in HttpStatuses : PageResponse(status)
    \/ GetJson
    \/ \E status \in HttpStatuses : JsonResponse(status)

SpecPage == InitPage /\ [][NextPage]_vars

(* ---- SpecCache ---- *)
InitCacheSpec == IdlePage /\ InitClockAndCache /\ InitGitlab({}, {NoRepoFiles}, NoNotes, NoPipelines) /\ InitBot

(* A call of Cache::set_project_config(project_id, conf).                  *)
SetProjectConfig(project_id, conf) ==
    /\ project_configs' = SetProjectConfigAt(project_configs, project_id, conf, now)
    /\ last_set' = [last_set EXCEPT ![project_id] = Some([conf |-> conf, at |-> now])]
    /\ got' = None
    /\ mutex' = CacheCall(mutex)
    /\ UNCHANGED <<now, page_vars, gl_vars, bot_vars>>

(* A call of Cache::get_project_config(project_id).                        *)
GetProjectConfig(project_id) ==
    /\ got' = Some([project |-> project_id,
                    result |-> GetProjectConfigAt(project_configs, project_id, now),
                    at |-> now])
    /\ mutex' = CacheCall(mutex)
    /\ UNCHANGED <<now, project_configs, last_set, page_vars, gl_vars, bot_vars>>

(* The monotonic clock advances by one minute.                             *)
Tick ==
    /\ now < MaxNow
    /\ now' = now + 1
    /\ got' = None
    /\ UNCHANGED <<project_configs, last_set, mutex, page_vars, gl_vars, bot_vars>>

NextCache ==
    \/ \E p \in ProjectIds, c \in {RepoConfigDefault, RepoConfigDisabled} :
          SetProjectConfig(p, c)
    \/ \E p \in ProjectIds : GetProjectConfig(p)
    \/ Tick

SpecCache == InitCacheSpec /\ [][NextCache]_vars

(* ---- Spec ---- *)
Init ==
    /\ IdlePage
    /\ InitClockAndCache
    /\ InitGitlab(MainMrs, {[NoRepoFiles EXCEPT ![1] = f] : f \in RepoFiles},
                  NoNotes, NoPipelines)
    /\ InitBot

TaskStep(m, answers) ==
    \E status \in answers :
        \/ ProjectResponse(m, status)
        \/ RepoFileResponse(m, status)
        \/ BranchResponse(m, status)
        \/ CommitsResponse(m, status)
        \/ CommentsResponse(m, status)
        \/ PipelinesResponse(m, status)
        \/ WarningResponse(m, status)
        \/ PipelineJobsResponse(m, status)
        \/ JobTraceResponse(m, status)
        \/ ReportResponse(m, status)
        \/ DeleteResponse(m, status)

Process(answers) ==
    \/ LoopStart
    \/ \E status \in answers : UserResponse(status)
    \/ \E status \in answers : MergeRequestsResponse(status)
    \/ StartTask
    \/ Yield
    \/ ProcessComplete

Server ==
    \/ \E m \in MainMrs : HumanComment(m)
    \/ \E m \in MainMrs : NewPipeline(m)
    \/ \E m \in MainMrs, status \in {"success", "failed"} : PipelineEnds(m, status)
    \/ \E m \in MainMrs : Touch(m)
    \/ DaysPass

(* The bot against a server that answers every request, and on which       *)
(* people and pipelines act between the cycles.                            *)
Next ==
    \/ Process({200})
    \/ Timeout
    \/ \E m \in MainMrs : TaskStep(m, {200})
    \/ Server

Spec == Init /\ [][Next]_vars

(* ---- SpecIsolation ---- *)
IsolationMrs == {1, 2, 3}

OldReport(id) ==
    [id |-> id, author |-> Some(BotId), created_at |-> 0,
     body |-> <<Tok("## Validation"), <<"Reviewer selected", "x", 0>>, Tok("[report]")>>]

(* Merge request 1 has two reports of an earlier life of the bot, merge    *)
(* request 2 a failed pipeline, and merge request 3 is of a project that   *)
(* has the bot disabled.                                                   *)
IsolationNotes == [m \in MrIds |-> IF m = 1 THEN <<OldReport(2), OldReport(1)>> ELSE <<>>]

IsolationPipelines ==
    [m \in MrIds |-> IF m = 2 THEN <<[id |-> 1, status |-> "failed"]>> ELSE <<>>]

IsolationRepoFiles == [p \in ProjectIds |-> IF p = 2 THEN "disabled" ELSE "rules"]

InitIsolation ==
    /\ IdlePage
    /\ InitClockAndCache
    /\ InitGitlab(IsolationMrs, {IsolationRepoFiles}, IsolationNotes, IsolationPipelines)
    /\ InitBot

(* One cycle over three merge requests, against a server that may answer   *)
(* any request with an error status.                                       *)
NextIsolation ==
    \/ Process({200, 500})
    \/ \E m \in IsolationMrs : TaskStep(m, {200, 500})

SpecIsolation == InitIsolation /\ [][NextIsolation]_vars

(* The same under the reactor: a request that can be answered is          *)
(* answered, and a future that can be polled is polled (main.rs:          *)
(* core.run).                                                              *)
SpecIsolationFair == InitIsolation /\ [][NextIsolation]_vars /\ WF_vars(NextIsolation)

(* ---- SpecWindow ---- *)
WindowMrs == 1..MaxMr

InitWindow ==
    /\ IdlePage
    /\ InitClockAndCache
    /\ InitGitlab(WindowMrs, {NoRepoFiles}, NoNotes, NoPipelines)
    /\ InitBot

(* One cycle over more merge requests than buffered(5) holds; a future     *)
(* resolves, well or badly, at any time after its first poll.              *)
NextWindow ==
    \/ Process({200})
    \/ \E m \in WindowMrs, res \in {"ok", "err"} : TaskResolves(m, res)

SpecWindow == InitWindow /\ [][NextWindow]_vars

(* ---- SpecLoop ---- *)
(* The bot against a server that may answer any request with an error      *)
(* status, under the reactor: a timer that was set fires, and do_loop      *)
(* goes round.                                                             *)
LoopPipelines ==
    [m \in MrIds |-> IF m = 1 THEN <<[id |-> 1, status |-> "failed"]>> ELSE <<>>]

(* Merge request 1 has a failed pipeline and two reports of an earlier     *)
(* life of the bot.                                                        *)
InitLoop ==
    /\ IdlePage
    /\ InitClockAndCache
    /\ InitGitlab(MainMrs, {[NoRepoFiles EXCEPT ![1] = f] : f \in RepoFiles},
                  IsolationNotes, LoopPipelines)
    /\ InitBot

NextLoop ==
    \/ Process({200, 500})
    \/ Timeout
    \/ \E m \in MainMrs : TaskStep(m, {200, 500})

SpecLoop == InitLoop /\ [][NextLoop]_vars /\ WF_vars(Timeout) /\ WF_vars(LoopStart)

(* ---- SpecCycles ---- *)
(* The same server, on which between two cycles a person may comment and   *)
(* updated_at of the merge request may move.                               *)
NextCycles ==
    \/ NextLoop
    \/ \E m \in MainMrs : HumanComment(m)
    \/ \E m \in MainMrs : Touch(m)

SpecCycles == InitLoop /\ [][NextCycles]_vars

(* ---- SpecPolicy ---- *)
(* One pass over merge request 1, whose title, notes, pipeline and         *)
(* repository file are any of the cases the policy tells apart, on a day   *)
(* on which its head commit is exactly ReminderDays old or one day older;  *)
(* the server may fail requests.                                           *)

Note(id, author, day, body) ==
    [id |-> id, author |-> Some(author), created_at |-> day, body |-> body]

(* The report of a merge request without assignee, pipeline and rules, as  *)
(* an earlier pass has written it.                                         *)
PlainReport(id) ==
    Note(id, BotId, 0, <<Tok("## Validation"), <<"Reviewer selected", " :warning:", 0>>,
                         Tok("[report]")>>)

(* The notes merge request 1 starts with, newest first.                    *)
PolicyNotes ==
    { <<>>,
      <<OldReport(1)>>,
      <<PlainReport(1)>>,
      <<PlainReport(2), OldReport(1)>>,
      <<Note(2, HumanId, 0, <<Tok("looks good")>>), OldReport(1)>>,
      <<OldReport(2), OldReport(1)>>,
      <<Note(1, HumanId, 0, <<Tok("see the [report]"), Tok("[report]")>>)>>,
      <<Note(1, BotId, 0, <<Tok("The merge request title is invalid."),
                            Tok("[title_warning]")>>)>>,
      <<Note(1, HumanId, 0, <<Tok("[title_warning]")>>)>>,
      <<Note(1, BotId, 0, ReminderBody)>>,
      <<Note(1, BotId, 1, ReminderBody)>>,
      <<Note(1, HumanId, 1, ReminderBody)>> }

PolicyTitles == {"fix bug", "[ABC-1] fix bug"}

PolicyPipelines ==
    {<<>>} \cup {<<[id |-> 1, status |-> s]>> : s \in PipelineStatuses}
           \cup {<<[id |-> 2, status |-> "success"], [id |-> 1, status |-> "failed"]>>,
                 <<[id |-> 2, status |-> "failed"], [id |-> 1, status |-> "success"]>>}

InitPolicy ==
    /\ IdlePage
    /\ InitClockAndCache
    /\ InitScheduler
    /\ today \in {ReminderDays, ReminderDays + 1}
    /\ gl_open = MainMrs
    /\ \E title \in PolicyTitles :
          gl_mrs = [m \in MrIds |-> IF m = 1 THEN [InitialMr(m) EXCEPT !.title = title]
                                    ELSE InitialMr(m)]
    /\ gl_branches = [m \in MrIds |-> [name |-> InitialMr(m).source_branch,
                                       committed_date |-> 0]]
    /\ \E notes \in PolicyNotes :
          /\ gl_notes = [m \in MrIds |-> IF m = 1 THEN notes ELSE <<>>]
          /\ gl_note_count = [m \in MrIds |-> IF m = 1 THEN Len(notes) ELSE 0]
    /\ \E pipelines \in PolicyPipelines :
          gl_pipelines = [m \in MrIds |-> IF m = 1 THEN pipelines ELSE <<>>]
    /\ gl_repo_file \in [ProjectIds -> RepoFiles]
    /\ gl_repo_file[2] = "absent"

NextPolicy ==
    \/ Process({200, 500})
    \/ \E m \in MainMrs : TaskStep(m, {200, 500})

SpecPolicy == InitPolicy /\ [][NextPolicy]_vars

-----------------------------------------------------------------------------
(* Properties of the API client *)

RECURSIVE ConcatPages(_, _)
(* The items of pages 1..k of a list of `total` pages, in page order.      *)
ConcatPages(k, total) ==
    IF k <= 0 THEN <<>> ELSE ConcatPages(k - 1, total) \o PageItems(k, total)

FirstN(n) == [i \in 1..n |-> i]

(* C8: without a cap and with x-total-pages = N >= 1, the requests sent    *)
(* are always pages 1, 2, ... in order and never go past N; a call that    *)
(* returns Ok has sent exactly pages 1..N (N-1 requests after the first)   *)
(* and returns the items of pages 1..N concatenated in page order.         *)
PaginationNoCap ==
    (op = "load_paginated" /\ ~max_pages.some /\ header.kind = "num" /\ header.n >= 1)
    =>
    /\ \E k \in 1..header.n : sent = FirstN(k)
    /\ lp_result = "ok" =>
           /\ sent = FirstN(header.n)
           /\ items = ConcatPages(header.n, header.n)

(* A three-page list has been loaded without a cap.                        *)
PaginationNoCapWitness ==
    /\ op = "load_paginated" /\ ~max_pages.some
    /\ header.kind = "num" /\ header.n = 3
    /\ lp_result = "ok"
    /\ sent = <<1, 2, 3>>
    /\ items = <<1, 2, 3, 4, 5, 6>>

(* C9: with a cap and x-total-pages = total (cap >= 1, total >= 1), a call *)
(* that returns Ok has requested exactly the pages 1..min(total, cap) and  *)
(* returns their items concatenated in page order.                         *)
PaginationWithCap ==
    (/\ op = "load_paginated" /\ max_pages.some /\ max_pages.val >= 1
     /\ header.kind = "num" /\ header.n >= 1
     /\ lp_result = "ok")
    =>
    /\ sent = FirstN(Min(header.n, max_pages.val))
    /\ items = ConcatPages(Min(header.n, max_pages.val), header.n)

(* C10: a response with an error status ends the call with Err, it is the  *)
(* last response of the call and no request follows it; no page is         *)
(* requested twice; a single-request operation sends one request.          *)
NoRetryOnError ==
    /\ \A i \in 1..Len(statuses) :
           statuses[i] \in {404, 500} =>
               /\ lp_result = "err"
               /\ i = Len(statuses)
               /\ Len(sent) = i
    /\ \A i, j \in 1..Len(sent) : sent[i] = sent[j] => i = j
    /\ op = "get_json" => Len(sent) = 1

(* A later page of a paginated call was answered with an error status.     *)
NoRetryOnErrorWitness ==
    /\ op = "load_paginated"
    /\ Len(statuses) = 3
    /\ statuses[3] = 404
    /\ lp_result = "err"
    /\ sent = <<1, 2, 3>>

RECURSIVE PagesOf(_, _)
(* The items of the pages requested, in the order of the requests.         *)
PagesOf(pages, total) ==
    IF pages = <<>> THEN <<>>
    ELSE PageItems(Head(pages), total) \o PagesOf(Tail(pages), total)

(* C27: a paginated call returns no partial list: without a numeric        *)
(* x-total-pages header on the first response the call fails after that    *)
(* one request; a call that fails, at the first or at a later page,        *)
(* returns no items and has sent no request after the failing one; a call  *)
(* that succeeds returns the items of every page it requested.             *)
NoPartialList ==
    (op = "load_paginated" /\ lp_pc = "done") =>
        /\ header.kind # "num" => lp_result = "err" /\ sent = <<1>>
        /\ (\E i \in 1..Len(statuses) : statuses[i] >= 400) => lp_result = "err"
        /\ lp_result = "err" => items = <<>> /\ Len(sent) = Len(statuses)
        /\ lp_result = "ok" => /\ header.kind = "num"
                               /\ items = PagesOf(sent, header.n)
                               /\ Len(sent) = Len(statuses)

(* The first response was a success without the header.                    *)
NoPartialListWitness ==
    /\ op = "load_paginated"
    /\ lp_pc = "done"
    /\ header.kind = "missing"
    /\ statuses = <<200>>
    /\ lp_result = "err"
    /\ items = <<>>

-----------------------------------------------------------------------------
(* Properties of the cache *)

(* C4: a get_project_config(p) at a time strictly before T+30min, T being  *)
(* the time of the last set_project_config(p, c), returns c; one at a time *)
(* after T+30min returns None; a get of a project never set returns None;  *)
(* and every set installs the expiry now+30min, replacing the earlier one. *)
ConfigTtlHolds ==
    /\ got.some =>
          LET p == got.val.project
          IN  IF last_set[p].some
              THEN /\ got.val.at < last_set[p].val.at + 30 =>
                          got.val.result = Some(last_set[p].val.conf)
                   /\ got.val.at > last_set[p].val.at + 30 =>
                          got.val.result = None
              ELSE got.val.result = None
    /\ \A p \in ProjectIds :
          last_set[p].some =>
              /\ project_configs[p].some
              /\ project_configs[p].val.valid_until = Some(last_set[p].val.at + 30)
              /\ project_configs[p].val.item = last_set[p].val.conf

(* A lookup 31 minutes after a set missed, for an entry that had been set  *)
(* a second time (its first expiry was replaced).                          *)
ConfigTtlWitness ==
    /\ got.some
    /\ got.val.result = None
    /\ last_set[got.val.project].some
    /\ last_set[got.val.project].val.at > 0
    /\ got.val.at = last_set[got.val.project].val.at + 31

-----------------------------------------------------------------------------
(* Properties of the reconciler and of the scheduler *)

ReportCount(notes) == Len(SelectSeq(notes, LAMBDA c : Contains(c.body, "[report]")))

(* C1: after a successful run of process_merge_request, every run of the   *)
(* merge request so far having succeeded from no bot comments on, exactly  *)
(* one comment with the marker [report] exists on the merge request        *)
(* (none where the repo config disables the bot).                          *)
OneLiveReport ==
    \A m \in MrIds :
        (task[m].pc = "done" /\ task[m].result = "ok" /\ passes[m][2].clean)
        =>
        /\ ReportCount(gl_notes[m]) <= 1
        /\ ~IsDisabled(passes[m][2].view.repo_config) => ReportCount(gl_notes[m]) = 1

(* The second of two successive successful runs saw the merge request as   *)
(* the first had left it: same title, assignee, branch, pipelines (and so  *)
(* jobs and traces) and config, and no comment but those the first wrote.  *)
SawNoChange(p1, p2) ==
    /\ p1.result = "ok"
    /\ p2.result = "ok"
    /\ p2.view = p1.view
    /\ p2.comments = p1.notes_after

UnchangedIsSkipped ==
    \A m \in unchanged_at_list :
        /\ task[m].pc = "idle"
        /\ fetches[m] = <<>>
        /\ writes[m] = <<>>

(* A second cycle has run to its end over a merge request cached by the    *)
(* first.                                                                  *)
UnchangedIsSkippedWitness ==
    /\ cycle = 2
    /\ loop_pc = "timeout"
    /\ process_result = "ok"
    /\ 1 \in unchanged_at_list
    /\ merge_requests[1].some

(* C5: process() fails only if no merge request was processed (the user   *)
(* or the listing could not be loaded); once it returns Ok every selected  *)
(* merge request has been processed to its own end, however the others     *)
(* ended.                                                                  *)
FailureIsolation ==
    /\ process_result = "err" => \A m \in MrIds : task[m].pc = "idle"
    /\ process_result = "ok" =>
           \A m \in gl_open \ unchanged_at_list : task[m].pc = "done"

(* The cycle ended well although merge request 2 failed at the retrieval   *)
(* of a job trace; merge requests 1 and 3 were processed to success.       *)
FailureIsolationWitness ==
    /\ process_result = "ok"
    /\ task[2].result = "err"
    /\ fetches[2] # <<>>
    /\ fetches[2][Len(fetches[2])] = "job_trace"
    /\ task[1].result = "ok"
    /\ task[3].result = "ok"

(* C6: a cycle whose process() returned an error is followed by another    *)
(* cycle (as far as cycles are followed).                                  *)
FailedCycleIsFollowed ==
    \A c \in 1..(MaxCycles - 1) : (process_result = "err" /\ cycle = c) ~> (cycle = c + 1)

(* The second cycle was started after the first had failed before any      *)
(* merge request was processed, and an interval later.                     *)
FailedCycleIsFollowedWitness ==
    /\ cycle = 2
    /\ loop_pc = "user"
    /\ failures = 1
    /\ passes[1][2].result = "none"
    /\ now = Interval

InFlight == {m \in MrIds : task[m].pc \notin {"idle", "done"}}

(* C7: at most 5 process_merge_request futures are in flight, and at most  *)
(* 5 occupy the window of buffered().                                      *)
ConcurrencyCap ==
    /\ Cardinality(InFlight) <= 5
    /\ Len(window) <= 5

(* Five futures are in flight while a selected merge request waits.        *)
ConcurrencyCapWitness ==
    /\ Cardinality(InFlight) = 5
    /\ stream # <<>>

-----------------------------------------------------------------------------
(* Properties of one pass of process_merge_request (SpecPolicy)            *)

(* The snapshot the pass of merge request m worked on: full_merge_request  *)
(* stores it in the cache before the policy runs.                          *)
HasSnapshot(m) == merge_requests[m].some

Snapshot(m) == merge_requests[m].val

RunEnded(m) == task[m].pc = "done"

RunOk(m) == task[m].pc = "done" /\ task[m].result = "ok"

(* The positions in the write log of m of the writes of one kind.          *)
WritesOf(m, ops, marker) ==
    {i \in 1..Len(writes[m]) : writes[m][i].op \in ops /\ writes[m][i].marker = marker}

NumFetches(m, pc) == Cardinality({i \in 1..Len(fetches[m]) : fetches[m][i] = pc})

(* A note of the bot whose body holds the marker, in a list of notes.      *)
BotNoteWith(notes, marker) ==
    \E i \in 1..Len(notes) :
        /\ notes[i].author = Some(BotId)
        /\ Contains(notes[i].body, marker)

TitleConfigured(full) ==
    /\ full.repo_config.merge_requests.some
    /\ full.repo_config.merge_requests.val.title_pattern.some

TitlePattern(full) == full.repo_config.merge_requests.val.title_pattern.val

TitleMismatch(full) ==
    /\ TitleConfigured(full)
    /\ ~IsMatch(TitlePattern(full), full.request.title)

(* C11: with a title pattern configured and a title that does not match    *)
(* it, a pass creates exactly one [title_warning] comment when its         *)
(* snapshot holds no comment of the bot with [title_warning], of any age,  *)
(* and none when it holds one; the body of the comment names the pattern;  *)
(* a matching title gets no warning.                                       *)
TitleWarningOnce ==
    \A m \in MainMrs :
        LET n == Cardinality(WritesOf(m, {"create"}, "[title_warning]"))
            due == /\ TitleMismatch(Snapshot(m))
                   /\ ~BotNoteWith(Snapshot(m).comments, "[title_warning]")
        IN  /\ n <= 1
            /\ WritesOf(m, {"update", "delete"}, "[title_warning]") = {}
            /\ n = 1 => HasSnapshot(m) /\ due
            /\ RunOk(m) /\ HasSnapshot(m) /\ due => 
                  /\ n = 1
                  /\ \E i \in 1..Len(gl_notes[m]) :
                        /\ gl_notes[m][i].author = Some(BotId)
                        /\ Contains(gl_notes[m][i].body, "[title_warning]")
                        /\ \E k \in 1..Len(gl_notes[m][i].body) :
                              gl_notes[m][i].body[k] =
                                 <<"Merge request title should match the pattern:",
                                   TitlePattern(Snapshot(m)), 0>>

TitleWarningOnceWitness ==
    /\ RunOk(1)
    /\ HasSnapshot(1)
    /\ TitleMismatch(Snapshot(1))
    /\ Cardinality(WritesOf(1, {"create"}, "[title_warning]")) = 1
    /\ Len(Snapshot(1).comments) > 0
    /\ BotNoteWith(gl_notes[1], "[title_warning]")

(* C12: when the repository configuration has disabled = true, the pass    *)
(* issues no comment create, update or delete and no pipeline-jobs or      *)
(* job-trace request, and it returns success.                              *)
DisabledDoesNothing ==
    \A m \in MainMrs :
        HasSnapshot(m) /\ Snapshot(m).repo_config.disabled = Some(TRUE) =>
            /\ writes[m] = <<>>
            /\ gl_notes[m] = Snapshot(m).comments
            /\ NumFetches(m, "pipeline_jobs") = 0
            /\ NumFetches(m, "job_trace") = 0
            /\ RunOk(m)

DisabledDoesNothingWitness ==
    /\ RunOk(1)
    /\ HasSnapshot(1)
    /\ Snapshot(1).repo_config.disabled = Some(TRUE)
    /\ Len(Snapshot(1).pipelines) > 0
    /\ Snapshot(1).pipelines[1].status = "failed"
    /\ Len(Snapshot(1).comments) = 2
    /\ today = ReminderDays + 1

ReportWrites(m) == WritesOf(m, {"create", "update", "delete"}, "[report]")

(* C13 as stated: no comment is created, updated or deleted before the     *)
(* pipeline-jobs fetch and every job-trace fetch of the run have           *)
(* succeeded, so that a run that fails while the report is assembled has   *)
(* written no comment at all.                                              *)
NoWriteBeforeAssembly ==
    \A m \in MainMrs :
        /\ task[m].pc \in {"pipeline_jobs", "job_trace"} => writes[m] = <<>>
        /\ (/\ RunEnded(m)
            /\ task[m].result = "err"
            /\ NumFetches(m, "pipeline_jobs") > 0
            /\ ReportWrites(m) = {}) => writes[m] = <<>>

(* C13: the report is written, and older reports are deleted, only after   *)
(* the pipeline-jobs fetch and the job-trace fetch of every failed job of  *)
(* the run have succeeded; a run that fails while the report is assembled  *)
(* has written no [report] comment. Reminders and warnings are not held    *)
(* back.                                                                   *)
ReportAfterAssembly ==
    \A m \in MainMrs :
        /\ task[m].pc \in {"pipeline_jobs", "job_trace"} => ReportWrites(m) = {}
        /\ ReportWrites(m) # {} =>
              /\ HasSnapshot(m)
              /\ task[m].pc \in {"report", "delete", "done"}
              /\ Len(Snapshot(m).pipelines) > 0 =>
                    /\ NumFetches(m, "pipeline_jobs") = 1
                    /\ NumFetches(m, "job_trace") =
                          IF Snapshot(m).pipelines[1].status = "failed"
                          THEN Len(FailedJobs(JobsOf(Snapshot(m).pipelines[1])))
                          ELSE 0

ReportAfterAssemblyWitness ==
    /\ RunOk(1)
    /\ ReportWrites(1) # {}
    /\ WritesOf(1, {"create"}, "[title_warning]") # {}
    /\ NumFetches(1, "job_trace") = 2

NewestIsBotReport(full) ==
    /\ Len(full.comments) > 0
    /\ full.comments[1].author = Some(BotId)
    /\ Contains(full.comments[1].body, "[report]")

(* C14: a pass writes the report by exactly one update, and of the newest  *)
(* comment, if and only if the newest comment of its snapshot, whoever     *)
(* wrote it, is a comment of the bot that contains [report]; otherwise it  *)
(* writes the report by exactly one create and no update.                  *)
UpdateOrCreate ==
    \A m \in MainMrs :
        LET rw == WritesOf(m, {"create", "update"}, "[report]")
        IN  /\ Cardinality(rw) <= 1
            /\ \A i \in rw :
                  /\ HasSnapshot(m)
                  /\ writes[m][i].op = "update" <=> NewestIsBotReport(Snapshot(m))
                  /\ writes[m][i].op = "update" =>
                        writes[m][i].id = Snapshot(m).comments[1].id

UpdateOrCreateWitness ==
    /\ RunOk(1)
    /\ \E i \in WritesOf(1, {"update"}, "[report]") : writes[1][i].id = 2
    /\ Len(Snapshot(1).comments) = 2

(* The server holds a [report] comment of the bot that the snapshot of m   *)
(* does not hold: the report this pass created or updated.                 *)
WrittenReportStands(m) ==
    \E i \in 1..Len(gl_notes[m]) :
        /\ gl_notes[m][i].author = Some(BotId)
        /\ Contains(gl_notes[m][i].body, "[report]")
        /\ \A k \in 1..Len(Snapshot(m).comments) : Snapshot(m).comments[k] # gl_notes[m][i]

(* C15: every delete of a [report] comment is issued after the create or   *)
(* update of the report of the same pass, with that write on the server;   *)
(* no delete follows a failed write; and a merge request that had a        *)
(* [report] comment when the pass took its snapshot has one at every       *)
(* moment of the pass.                                                     *)
WriteThenPrune ==
    \A m \in MainMrs :
        /\ \A i \in WritesOf(m, {"delete"}, "[report]") :
              /\ \E j \in WritesOf(m, {"create", "update"}, "[report]") : j < i
              /\ HasSnapshot(m) /\ WrittenReportStands(m)
        /\ (/\ HasSnapshot(m)
            /\ WritesOf(m, {"create", "update"}, "[report]") # {}
            /\ ~WrittenReportStands(m)
            /\ RunEnded(m)) => WritesOf(m, {"delete"}, "[report]") = {}
        /\ HasSnapshot(m) /\ ReportCount(Snapshot(m).comments) >= 1 =>
              ReportCount(gl_notes[m]) >= 1

WriteThenPruneWitness ==
    /\ RunOk(1)
    /\ WritesOf(1, {"delete"}, "[report]") # {}
    /\ ReportCount(Snapshot(1).comments) = 2
    /\ ReportCount(gl_notes[1]) = 1

ProjectOf(m) == gl_mrs[m].project_id

(* C18: cached_repo_config does not fail: when the policy file cannot be   *)
(* fetched or parsed the default configuration is used, it is stored in    *)
(* the project-config cache to expire ConfigTtl minutes later, and the     *)
(* pass goes on with it.                                                   *)
RepoConfigNeverFails ==
    \A m \in MainMrs :
        LET p == ProjectOf(m)
            loaded == NumFetches(m, "repo_file") > 0 /\ task[m].pc # "repo_file"
        IN  /\ ~(/\ RunEnded(m)
                 /\ task[m].result = "err"
                 /\ fetches[m][Len(fetches[m])] = "repo_file")
            /\ loaded =>
                  /\ project_configs[p].some
                  /\ project_configs[p].val.valid_until = Some(now + ConfigTtl)
                  /\ project_configs[p].val.item \in
                        {RepoConfigDefault} \cup
                        (IF gl_repo_file[p] = "disabled" THEN {RepoConfigDisabled}
                         ELSE IF gl_repo_file[p] = "rules" THEN {RepoConfigRules}
                         ELSE {})
                  /\ Len(fetches[m]) > NumFetches(m, "project") + NumFetches(m, "repo_file")
                  /\ HasSnapshot(m) => Snapshot(m).repo_config = project_configs[p].val.item

RepoConfigNeverFailsWitness ==
    /\ RunOk(1)
    /\ HasSnapshot(1)
    /\ gl_repo_file[1] = "rules"
    /\ Snapshot(1).repo_config = RepoConfigDefault
    /\ project_configs[1] = Some([item |-> RepoConfigDefault,
                                  valid_until |-> Some(now + ConfigTtl)])
    /\ ReportWrites(1) # {}

(* A [reminder] comment of the bot created within the last ReminderDays    *)
(* days before day d.                                                      *)
RecentReminder(notes, d) ==
    \E i \in 1..Len(notes) :
        /\ notes[i].author = Some(BotId)
        /\ Contains(notes[i].body, "[reminder]")
        /\ notes[i].created_at >= d - ReminderDays

(* C19: a pass of a project that has the bot enabled creates exactly one   *)
(* [reminder] comment if the head commit of the source branch is older     *)
(* than ReminderDays days and its snapshot holds no [reminder] comment of  *)
(* the bot created within the last ReminderDays days, and none otherwise;  *)
(* an older [reminder] does not hold back a new one.                       *)
ReminderWhenStale ==
    \A m \in MainMrs :
        LET n == Cardinality(WritesOf(m, {"create"}, "[reminder]"))
            due == /\ Snapshot(m).repo_config.disabled # Some(TRUE)
                   /\ Snapshot(m).source_branch.committed_date < today - ReminderDays
                   /\ ~RecentReminder(Snapshot(m).comments, today)
        IN  /\ WritesOf(m, {"update", "delete"}, "[reminder]") = {}
            /\ ~HasSnapshot(m) => n = 0
            /\ HasSnapshot(m) => n = (IF due THEN 1 ELSE 0)
            /\ RunOk(m) /\ n = 1 => RecentReminder(gl_notes[m], today)

ReminderWhenStaleWitness ==
    /\ RunOk(1)
    /\ HasSnapshot(1)
    /\ BotNoteWith(Snapshot(1).comments, "[reminder]")
    /\ Cardinality(WritesOf(1, {"create"}, "[reminder]")) = 1
    /\ Len(gl_notes[1]) >= 2
    /\ gl_notes[1][1].created_at = today

(* C20: when the most recent pipeline of the merge request is pending, the *)
(* pass sends neither a pipeline-jobs request nor a job-trace request.     *)
PendingFetchesNoJobs ==
    \A m \in MainMrs :
        (/\ HasSnapshot(m)
         /\ Len(Snapshot(m).pipelines) > 0
         /\ Snapshot(m).pipelines[1].status = "pending")
        => NumFetches(m, "pipeline_jobs") = 0 /\ NumFetches(m, "job_trace") = 0

(* The requests of full_merge_request in the order of the code, the policy *)
(* file apart.                                                             *)
SnapshotOrder ==
    <<"project", "branch", "commits_source", "commits_target", "comments", "pipelines">>

(* C21: on a cache miss the requests of a pass are sent one after the      *)
(* other in the order project, branch, commits, comments, pipelines (the   *)
(* policy file, when it is fetched, right after the project), each after   *)
(* the one before it has succeeded; the policy runs and comments are       *)
(* written only after all of them; a pass one of whose fetches fails       *)
(* sends no later request and writes no comment.                           *)
SequentialSteps ==
    \A m \in MainMrs :
        LET f == SelectSeq(fetches[m], LAMBDA x : x # "repo_file")
            n == Len(f)
        IN  /\ \A i \in 1..n :
                  IF i <= Len(SnapshotOrder) THEN f[i] = SnapshotOrder[i]
                  ELSE f[i] \in {"pipeline_jobs", "job_trace"}
            /\ \A i \in 1..Len(fetches[m]) : fetches[m][i] = "repo_file" => i = 2
            /\ task[m].pc \in FetchPcs => fetches[m][Len(fetches[m])] = task[m].pc
            /\ (writes[m] # <<>> \/ n > Len(SnapshotOrder)) =>
                  HasSnapshot(m) /\ n >= Len(SnapshotOrder)
            /\ (RunEnded(m) /\ task[m].result = "err" /\ ~HasSnapshot(m)) =>
                  /\ writes[m] = <<>>
                  /\ n <= Len(SnapshotOrder)
                  /\ gl_note_count[m] = Len(gl_notes[m])

SequentialStepsWitness ==
    /\ RunEnded(1)
    /\ task[1].result = "err"
    /\ fetches[1] = <<"project", "repo_file", "branch", "commits_source",
                      "commits_target", "comments">>
    /\ gl_repo_file[1] = "rules"
    /\ gl_mrs[1].title = "fix bug"
    /\ today = ReminderDays + 1
    /\ writes[1] = <<>>

RECURSIVE Sections(_)
(* The sections of the failed jobs of a list of jobs, in its order.        *)
Sections(jobs) ==
    IF jobs = <<>> THEN <<>>
    ELSE (IF Head(jobs).status = "failed" THEN JobSection(Head(jobs)) ELSE <<>>)
         \o Sections(Tail(jobs))

(* The report a pass renders from a snapshot, the jobs being those of the  *)
(* most recent pipeline.                                                   *)
Rendered(full) ==
    LET jobs == IF Len(full.pipelines) > 0 THEN JobsOf(full.pipelines[1]) ELSE <<>>
    IN  ReportMsg(full, jobs, Sections(jobs))

(* The snapshot's newest comment of the bot with [report] has the body     *)
(* msg.                                                                    *)
NewestReportIs(full, msg) ==
    LET reports == SelectSeq(full.comments,
                             LAMBDA c : c.author = Some(BotId) /\ Contains(c.body, "[report]"))
    IN  Len(reports) > 0 /\ reports[1].body = msg

(* C24: a pass whose rendered report equals the body of the newest         *)
(* [report] comment of the bot in its snapshot sends no create, update or  *)
(* delete of a report; a pass that finds no such comment, or finds it      *)
(* different, writes the report (once).                                    *)
UnchangedReportSkipped ==
    \A m \in MainMrs :
        (HasSnapshot(m) /\ Snapshot(m).repo_config.disabled # Some(TRUE)) =>
            IF NewestReportIs(Snapshot(m), Rendered(Snapshot(m)))
            THEN ReportWrites(m) = {}
            ELSE RunOk(m) => Cardinality(WritesOf(m, {"create", "update"}, "[report]")) = 1

UnchangedReportSkippedWitness ==
    /\ RunOk(1)
    /\ HasSnapshot(1)
    /\ NewestReportIs(Snapshot(1), Rendered(Snapshot(1)))
    /\ Len(Snapshot(1).comments) = 2
    /\ gl_notes[1] = Snapshot(1).comments
    /\ NumFetches(1, "pipelines") = 1

JobsWithStatus(jobs, status) == {i \in 1..Len(jobs) : jobs[i].status = status}

(* C28: a pass requests the trace of each failed job of the most recent    *)
(* pipeline, once and in the order of the job list, if and only if that    *)
(* pipeline has failed; it requests no trace when the pipeline has passed  *)
(* or is pending, none of a job that has not failed, and nothing for an    *)
(* older pipeline.                                                         *)
TracesOfFailedJobsOnly ==
    \A m \in MainMrs :
        HasSnapshot(m) =>
            LET p == Snapshot(m).pipelines
                jobs == IF Len(p) > 0 THEN JobsOf(p[1]) ELSE <<>>
                failed == Len(p) > 0 /\ p[1].status = "failed"
                n == IF failed THEN Cardinality(JobsWithStatus(jobs, "failed")) ELSE 0
            IN  /\ NumFetches(m, "pipeline_jobs") <= 1
                /\ Len(p) = 0 => NumFetches(m, "pipeline_jobs") = 0
                /\ NumFetches(m, "job_trace") <= n
                /\ task[m].pc = "job_trace" =>
                      /\ task[m].jobs = jobs
                      /\ task[m].k = NumFetches(m, "job_trace")
                      /\ Len(task[m].traces) = Len(JobSection(jobs[1])) * (task[m].k - 1)
                /\ task[m].pc = "report" =>
                      /\ NumFetches(m, "job_trace") = n
                      /\ task[m].traces = IF failed THEN Sections(jobs) ELSE <<>>

TracesOfFailedJobsOnlyWitness ==
    /\ task[1].pc = "report"
    /\ Len(Snapshot(1).pipelines) = 2
    /\ Snapshot(1).pipelines[1].status = "failed"
    /\ NumFetches(1, "job_trace") = 2
    /\ task[1].traces = JobSection(JobsOf(Snapshot(1).pipelines[1])[2])
                        \o JobSection(JobsOf(Snapshot(1).pipelines[1])[3])

(* The merge requests that the filter of the listing has kept.            *)
Selected == gl_open \ unchanged_at_list

(* The run of merge request m in this cycle has begun once and has ended,  *)
(* well or badly.                                                          *)
ProcessedOnce(m) ==
    /\ task[m].pc = "done"
    /\ passes[m][1] = NoPass
    /\ passes[m][2].result \in {"ok", "err"}
    /\ NumFetches(m, "project") = 1

(* C29: process() returns Ok, past process_complete, only when every merge *)
(* request that the filter has kept has run once to its end or to its own  *)
(* failure; and when every request is answered, a cycle whose listing has  *)
(* arrived gets there.                                                     *)
NoMidCycleAbort ==
    /\ [](process_result = "ok" => \A m \in Selected : ProcessedOnce(m))
    /\ (loop_pc = "buffered") ~> (process_result = "ok")

NoMidCycleAbortWitness ==
    /\ process_result = "ok"
    /\ Selected = IsolationMrs
    /\ \A m \in Selected : ProcessedOnce(m)
    /\ task[1].result = "ok"
    /\ task[2].result = "err"
    /\ task[3].result = "ok"

(* The merge requests of project p whose run in this cycle has requested   *)
(* the policy file.                                                        *)
RepoFileFetchers(p) ==
    {m \in gl_open : gl_mrs[m].project_id = p /\ NumFetches(m, "repo_file") > 0}

(* C30: within one cycle, which lies within one validity window of the     *)
(* cached policy, the policy file of a project is requested at most once,  *)
(* however the runs of its merge requests interleave.                      *)
RepoFileFetchedOnce ==
    \A p \in ProjectIds :
        /\ Cardinality(RepoFileFetchers(p)) <= 1
        /\ \A m \in RepoFileFetchers(p) : NumFetches(m, "repo_file") = 1

(* The positions of a token in a message.                                  *)
PositionsOf(msg, tok) == {i \in 1..Len(msg) : msg[i] = tok}

(* msg has the build-status section, first, exactly when the snapshot has  *)
(* a pipeline; then the validation section with the line on the reviewer;  *)
(* and the marker [report] last.                                           *)
WellFormedReport(full, msg) ==
    /\ msg # <<>>
    /\ msg[Len(msg)] = Tok("[report]")
    /\ PositionsOf(msg, Tok("[report]")) = {Len(msg)}
    /\ PositionsOf(msg, Tok("## Build Status")) = IF Len(full.pipelines) > 0 THEN {1} ELSE {}
    /\ \E v \in PositionsOf(msg, Tok("## Validation")) :
          /\ PositionsOf(msg, Tok("## Validation")) = {v}
          /\ \A b \in PositionsOf(msg, Tok("## Build Status")) : b < v
          /\ \E r \in (v + 1)..(Len(msg) - 1) :
                msg[r] = <<"Reviewer selected",
                           IF full.request.assignee.some THEN "x" ELSE " :warning:", 0>>

(* C34: the report of a pass over a merge request whose project has not    *)
(* disabled the bot is never empty: it has the validation section with the *)
(* line on the reviewer, before it the build-status section exactly when   *)
(* the merge request has a pipeline, and the marker [report] at its end.   *)
ReportNeverEmpty ==
    \A m \in MainMrs :
        /\ task[m].pc = "report" =>
              WellFormedReport(task[m].full,
                               ReportMsg(task[m].full, task[m].jobs, task[m].traces))
        /\ (RunOk(m) /\ HasSnapshot(m) /\ ~IsDisabled(Snapshot(m).repo_config)) =>
              WellFormedReport(Snapshot(m), Rendered(Snapshot(m)))

ReportNeverEmptyWitness ==
    /\ task[1].pc = "report"
    /\ Len(task[1].full.pipelines) = 2
    /\ task[1].full.pipelines[1].status = "failed"
    /\ Len(ReportMsg(task[1].full, task[1].jobs, task[1].traces)) > 6
    /\ TitleMismatch(task[1].full)

-----------------------------------------------------------------------------
(* C35: whatever the cap and the declared number of pages, each request    *)
(* that load_paginated sends after its first is for a page from 2 up to    *)
(* the declared x-total-pages, and for no page is a request sent twice.    *)
OnlyExistingPages ==
    op = "load_paginated" =>
        /\ \A i \in 2..Len(sent) : 2 <= sent[i] /\ sent[i] <= HeaderTotal(header)
        /\ \A i, j \in 1..Len(sent) : i # j => sent[i] # sent[j]

OnlyExistingPagesWitness ==
    /\ op = "load_paginated"
    /\ lp_result = "ok"
    /\ max_pages = Some(2)
    /\ header = [kind |-> "num", n |-> 3]
    /\ sent = <<1, 2>>

-----------------------------------------------------------------------------
(* Properties over the cycles (SpecCycles)                                 *)

(* The notes of the bot on a merge request whose body holds the marker.    *)
BotNotesWith(notes, marker) ==
    {i \in 1..Len(notes) : notes[i].author = Some(BotId) /\ Contains(notes[i].body, marker)}

(* C31: however many cycles run, whether their runs end well or badly and  *)
(* whether or not updated_at moves between them, a merge request never     *)
(* carries more than one note of the bot with the marker [title_warning].  *)
OneTitleWarningEver ==
    \A m \in MainMrs : Cardinality(BotNotesWith(gl_notes[m], "[title_warning]")) <= 1

OneTitleWarningEverWitness ==
    /\ cycle >= 2
    /\ failures = 1
    /\ gl_mrs[1].updated_at > 0
    /\ RunOk(1)
    /\ HasSnapshot(1)
    /\ Snapshot(1).request.updated_at = gl_mrs[1].updated_at
    /\ TitleMismatch(Snapshot(1))
    /\ Cardinality(BotNotesWith(Snapshot(1).comments, "[title_warning]")) = 1

(* The run of m is past full_merge_request: it awaits a request of the     *)
(* policy or of the reconciler.                                            *)
PastSnapshot(m) == task[m].pc \in WritePcs \cup {"pipeline_jobs", "job_trace"}

(* No write of the run of m has been answered yet.                         *)
NothingWrittenYet(m) ==
    \/ writes[m] = <<>>
    \/ Len(writes[m]) = 1 /\ task[m].pc \in WritePcs

(* C32: a run that the scheduler has started begins with the request for   *)
(* the project, which is the path of full_merge_request past the cache;    *)
(* and the snapshot it judges holds the listing's merge request and the    *)
(* comments and pipelines that this run has fetched.                       *)
NeverStaleSnapshot ==
    \A m \in MainMrs :
        /\ task[m].pc # "idle" => fetches[m] # <<>> /\ fetches[m][1] = "project"
        /\ PastSnapshot(m) =>
              /\ NumFetches(m, "comments") = 1
              /\ NumFetches(m, "pipelines") = 1
              /\ task[m].full.request = gl_mrs[m]
              /\ task[m].full.pipelines = gl_pipelines[m]
              /\ NothingWrittenYet(m) => task[m].full.comments = gl_notes[m]

NeverStaleSnapshotWitness ==
    /\ cycle >= 2
    /\ gl_mrs[1].updated_at > 0
    /\ task[1].pc = "report"
    /\ NothingWrittenYet(1)
    /\ \E i \in 1..Len(gl_notes[1]) : gl_notes[1][i].author = Some(HumanId)
    /\ task[1].full.comments = gl_notes[1]
    /\ NumFetches(1, "comments") = 1

(* No future of process_merge_request is held or waits in the stream.      *)
NoTaskInFlight ==
    /\ stream = <<>>
    /\ window = <<>>
    /\ \A m \in MrIds : task[m].pc \in {"idle", "done"}

-----------------------------------------------------------------------------
(* Properties of the cache and of the cycle (Spec, SpecLoop)               *)

(* C16: the filter of a listing keeps a merge request exactly when the     *)
(* cache holds no snapshot under its id or holds one whose updated_at      *)
(* differs from the listed one, and filtering leaves the cache as it was.  *)
ChangedIsPure ==
    [][(loop_pc = "merge_requests" /\ loop_pc' = "buffered") =>
          /\ merge_requests' = merge_requests
          /\ \A m \in gl_open :
                (\E i \in 1..Len(stream') : stream'[i].id = m)
                <=> \/ ~merge_requests[m].some
                    \/ merge_requests[m].val.request.updated_at # gl_mrs[m].updated_at]_vars

ChangedIsPureWitness ==
    /\ cycle >= 2
    /\ loop_pc = "buffered"
    /\ window = <<>>
    /\ Len(stream) = 1
    /\ merge_requests[1].some
    /\ merge_requests[1].val.request.updated_at # stream[1].updated_at

(* C17: a merge request whose last pass failed, at whatever step, is       *)
(* selected again by the next cycle although its updated_at is unchanged:  *)
(* no listing drops as unchanged a merge request whose last pass failed.   *)
FailureIsRetried ==
    \A m \in unchanged_at_list : passes[m][2].result # "err"

(* C22: the mutex of the cache is never held across a suspension point:    *)
(* whenever the futures are suspended (every state between two polls),     *)
(* the mutex is free, so no accessor ever finds it taken, under any        *)
(* interleaving of the futures of one cycle.                               *)
LockNotHeldAcrossAwait ==
    /\ mutex # "blocked"
    /\ (\/ \E m \in MrIds : task[m].pc \in FetchPcs \cup WritePcs
        \/ loop_pc \in {"user", "merge_requests", "buffered", "timeout"}) => mutex = "free"

LockNotHeldAcrossAwaitWitness ==
    /\ task[1].pc = "branch"
    /\ task[2].pc = "repo_file"
    /\ task[3].pc = "pipelines"
    /\ project_configs[1].some
    /\ project_configs[2].some
    /\ mutex = "free"

(* C23: a future that does not complete holds one slot of buffered(5) and  *)
(* no more: while it is the only future in flight and selected merge       *)
(* requests wait in the stream, the stream can go on, either because the   *)
(* window has room for the next future or because the oldest future of     *)
(* the window is resolved and can be yielded.                              *)
HungTaskHoldsOneSlot ==
    \A h \in MrIds :
        (loop_pc = "buffered" /\ stream # <<>> /\ InFlight = {h}) =>
            \/ WindowHasRoom(window)
            \/ window # <<>> /\ Head(window) # h

(* C25: a cycle sends one identity lookup and then, if that succeeded, one *)
(* listing; when either fails the cycle ends there: process() returns the  *)
(* error, no merge request is processed, no comment is written, and the    *)
(* cache and the notes on the server are as they were.                     *)
CycleWideFailure ==
    /\ [](process_result = "err" =>
             \A m \in MrIds : task[m].pc = "idle" /\ writes[m] = <<>> /\ fetches[m] = <<>>)
    /\ [][/\ (loop_pc = "loop" /\ loop_pc' # "loop") => loop_pc' = "user"
          /\ loop_pc' = "user" => loop_pc = "loop" /\ cycle' = cycle + 1
          /\ loop_pc' = "merge_requests" => loop_pc = "user" /\ failures' = failures
          /\ loop_pc \in {"user", "merge_requests"} =>
                /\ merge_requests' = merge_requests
                /\ project_configs' = project_configs
                /\ gl_notes' = gl_notes
                /\ task' = task /\ writes' = writes /\ fetches' = fetches
                /\ cycle' = cycle
                /\ (failures' # failures) =>
                       loop_pc' = "timeout" /\ process_result' = "err" /\ stream' = stream
                /\ (failures' = failures) =>
                       loop_pc' = (IF loop_pc = "user" THEN "merge_requests"
                                   ELSE "buffered")]_vars

CycleWideFailureWitness ==
    /\ cycle = 2
    /\ loop_pc = "timeout"
    /\ process_result = "err"
    /\ user # None
    /\ merge_requests[1].some
    /\ gl_notes[1] # IsolationNotes[1]

====
